---- MODULE Spec2Model ----
(***************************************************************************)
(* Model of the OSS V4 presigned-URL signer (signatureUrlV4 and helpers),  *)
(* of onRequest, of EventBus and of UIManager's roster, message list and   *)
(* formatDate.                                                             *)
(*                                                                         *)
(* A JavaScript string is a sequence of units.  A unit is a character      *)
(* [c |-> "a"] or an opaque block produced by a cryptographic primitive    *)
(* (SHA-256 and HMAC-SHA256 are treated as collision-free constructors).   *)
(* A JavaScript value is a tagged record: undefined, null, string, number  *)
(* or bytes (Uint8Array).                                                  *)
(***************************************************************************)
EXTENDS Integers, Sequences, FiniteSets, TLC

VARIABLES now, subtle, opts, callerQueries, pc, loc, last, fx, http, bus, ui

vars == <<now, subtle, opts, callerQueries, pc, loc, last, fx, http, bus, ui>>

(***************************************************************************)
(* Bounds                                                                  *)
(***************************************************************************)
MaxTick == 1
MaxFixLen == 3
MaxQueryLen == 3
MaxKeyLen == 3
MaxListeners == 2
MaxDepth == 2
MaxRoster == 3
MaxEvents == 2
MaxInstant == 60
MaxCalls == 4

(***************************************************************************)
(* Characters and strings                                                  *)
(***************************************************************************)
\* printable ASCII, code 32 .. 126, in code order (code 96 is spelled out)
Ascii ==
  << " ", "!", "\"", "#", "$", "%", "&", "'", "(", ")", "*", "+", ",", "-", ".", "/",
     "0", "1", "2", "3", "4", "5", "6", "7", "8", "9", ":", ";", "<", "=", ">", "?",
     "@", "A", "B", "C", "D", "E", "F", "G", "H", "I", "J", "K", "L", "M", "N", "O",
     "P", "Q", "R", "S", "T", "U", "V", "W", "X", "Y", "Z", "[", "\\", "]", "^", "_",
     "grave", "a", "b", "c", "d", "e", "f", "g", "h", "i", "j", "k", "l", "m", "n", "o",
     "p", "q", "r", "s", "t", "u", "v", "w", "x", "y", "z", "{", "|", "}", "~" >>

CharSet == {Ascii[i] : i \in 1..Len(Ascii)} \cup {"\n"}

\* String.prototype.charCodeAt for one character
OrdMap == [ch \in CharSet |-> IF ch = "\n" THEN 10
                              ELSE 31 + CHOOSE i \in 1..Len(Ascii) : Ascii[i] = ch]

Chr(n) == IF n = 10 THEN "\n" ELSE Ascii[n - 31]

IsChar(u) == DOMAIN u = {"c"}

\* a string literal, written as a tuple of one-character strings
S(t) == [i \in 1..Len(t) |-> [c |-> t[i]]]

NL == S(<<"\n">>)

\* the concatenation of a list of strings
RECURSIVE Concat(_)
Concat(parts) ==
  IF Len(parts) = 0 THEN <<>>
  ELSE IF Len(parts) = 1 THEN parts[1]
  ELSE LET h == Len(parts) \div 2
       IN Concat(SubSeq(parts, 1, h)) \o Concat(SubSeq(parts, h + 1, Len(parts)))

\* Array.prototype.join(sep)
Join(parts, sep) ==
  IF Len(parts) = 0 THEN <<>>
  ELSE Concat([i \in 1..(2 * Len(parts) - 1) |-> IF i % 2 = 1 THEN parts[(i + 1) \div 2] ELSE sep])

StartsWith(s, p) == Len(s) >= Len(p) /\ SubSeq(s, 1, Len(p)) = p

Indices(s) == [i \in 1..Len(s) |-> i]

\* the indices of s that hold the character ch, ascending
PositionsOf(s, ch) == LET Hit(i) == s[i] = [c |-> ch] IN SelectSeq(Indices(s), Hit)

\* first index of the character ch in s, or 0
IndexOf(s, ch) == LET hits == PositionsOf(s, ch) IN IF Len(hits) = 0 THEN 0 ELSE hits[1]

\* String.prototype.split(sep) for a one-character separator
Split(s, ch) ==
  LET seps == PositionsOf(s, ch)
      From(k) == IF k = 1 THEN 1 ELSE seps[k - 1] + 1
      To(k) == IF k = Len(seps) + 1 THEN Len(s) ELSE seps[k] - 1
  IN [k \in 1..(Len(seps) + 1) |-> SubSeq(s, From(k), To(k))]

\* String.prototype.replace(/pat/g, r) for a pattern that cannot overlap itself
ReplaceAll(s, pat, r) ==
  LET n == Len(pat)
      Starts(i) == i >= 1 /\ i + n - 1 <= Len(s) /\ SubSeq(s, i, i + n - 1) = pat
      Inside(i) == \E j \in (i - n + 1)..(i - 1) : Starts(j)
      Kept(i) == ~Inside(i)
      kept == SelectSeq(Indices(s), Kept)
  IN Concat([k \in 1..Len(kept) |-> IF Starts(kept[k]) THEN r ELSE <<s[kept[k]]>>])

LowerChar(u) ==
  IF IsChar(u) /\ OrdMap[u.c] \in 65..90 THEN [c |-> Chr(OrdMap[u.c] + 32)] ELSE u

UpperChar(u) ==
  IF IsChar(u) /\ OrdMap[u.c] \in 97..122 THEN [c |-> Chr(OrdMap[u.c] - 32)] ELSE u

toLowerCase(s) == [i \in 1..Len(s) |-> LowerChar(s[i])]

toUpperCase(s) == [i \in 1..Len(s) |-> UpperChar(s[i])]

IsSpace(u) == IsChar(u) /\ u.c \in {" ", "\n"}

RECURSIVE TrimLeft(_)
TrimLeft(s) == IF Len(s) > 0 /\ IsSpace(s[1]) THEN TrimLeft(Tail(s)) ELSE s

RECURSIVE TrimRight(_)
TrimRight(s) ==
  IF Len(s) > 0 /\ IsSpace(s[Len(s)]) THEN TrimRight(SubSeq(s, 1, Len(s) - 1)) ELSE s

trim(s) == TrimRight(TrimLeft(s))

\* comparison of two strings by code units, as Array.prototype.sort() does
RECURSIVE LexLess(_, _)
LexLess(a, b) ==
  IF Len(b) = 0 THEN FALSE
  ELSE IF Len(a) = 0 THEN TRUE
  ELSE IF a[1] = b[1] THEN LexLess(Tail(a), Tail(b))
  ELSE OrdMap[a[1].c] < OrdMap[b[1].c]

RECURSIVE InsertSorted(_, _)
InsertSorted(x, sorted) ==
  IF Len(sorted) = 0 THEN <<x>>
  ELSE IF LexLess(x, sorted[1]) THEN <<x>> \o sorted
  ELSE <<sorted[1]>> \o InsertSorted(x, Tail(sorted))

\* Array.prototype.sort() on an array of strings
RECURSIVE Sort(_)
Sort(list) == IF Len(list) = 0 THEN <<>> ELSE InsertSorted(list[1], Sort(Tail(list)))

\* the elements of a list in first-occurrence order, as [...new Set(list)]
RECURSIVE Dedup(_)
Dedup(list) ==
  IF Len(list) = 0 THEN <<>>
  ELSE LET front == Dedup(SubSeq(list, 1, Len(list) - 1))
           x == list[Len(list)]
       IN IF \E i \in 1..Len(front) : front[i] = x THEN front ELSE Append(front, x)

Range(f) == {f[i] : i \in DOMAIN f}

Digits == <<"0", "1", "2", "3", "4", "5", "6", "7", "8", "9">>

\* Number.prototype.toString() of a natural number
RECURSIVE NumToStr(_)
NumToStr(n) ==
  IF n < 10 THEN S(<<Digits[n + 1]>>)
  ELSE NumToStr(n \div 10) \o S(<<Digits[(n % 10) + 1]>>)

HexUpper == <<"0", "1", "2", "3", "4", "5", "6", "7", "8", "9", "A", "B", "C", "D", "E", "F">>

(***************************************************************************)
(* JavaScript values                                                       *)
(***************************************************************************)
Undef == [t |-> "undefined"]
Null == [t |-> "null"]
Str(s) == [t |-> "string", s |-> s]
Num(n) == [t |-> "number", n |-> n]
Bytes(b) == [t |-> "bytes", b |-> b]

\* ToBoolean
Truthy(v) ==
  CASE v.t = "undefined" -> FALSE
    [] v.t = "null" -> FALSE
    [] v.t = "string" -> Len(v.s) > 0
    [] v.t = "number" -> v.n # 0
    [] OTHER -> TRUE

\* String(v) and template-literal interpolation
JsString(v) ==
  CASE v.t = "undefined" -> S(<<"u", "n", "d", "e", "f", "i", "n", "e", "d">>)
    [] v.t = "null" -> S(<<"n", "u", "l", "l">>)
    [] v.t = "string" -> v.s
    [] v.t = "number" -> NumToStr(v.n)
    [] OTHER -> <<>>

\* v === undefined ? d : v  (destructuring default)
Default(v, d) == IF v = Undef THEN d ELSE v

(***************************************************************************)
(* Objects: a map with string keys in insertion order                      *)
(***************************************************************************)
ObjectKeys(obj) == [i \in 1..Len(obj) |-> obj[i].k]

HasKey(obj, k) == \E i \in 1..Len(obj) : obj[i].k = k

\* obj[k]
Get(obj, k) ==
  IF HasKey(obj, k) THEN obj[CHOOSE i \in 1..Len(obj) : obj[i].k = k].v ELSE Undef

\* obj[k] = v : an existing key keeps its place, a new key goes last
Put(obj, k, v) ==
  IF HasKey(obj, k)
    THEN [i \in 1..Len(obj) |-> IF obj[i].k = k THEN [k |-> k, v |-> v] ELSE obj[i]]
    ELSE Append(obj, [k |-> k, v |-> v])

\* Object.assign(target, source)
RECURSIVE ObjectAssign(_, _)
ObjectAssign(target, source) ==
  IF Len(source) = 0 THEN target
  ELSE ObjectAssign(Put(target, source[1].k, source[1].v), Tail(source))

(***************************************************************************)
(* Cryptographic primitives (crypto.subtle) and byte conversions           *)
(***************************************************************************)
\* toUint8, lines 102-107: a string becomes its UTF-8 bytes, bytes stay, and
\* anything else goes through new Uint8Array(data): undefined and null give
\* an empty array, a number n gives n zero bytes
toUint8(data) ==
  CASE data.t = "bytes" -> data.b
    [] data.t = "string" -> data.s
    [] data.t = "number" -> [i \in 1..data.n |-> [byte |-> 0]]
    [] OTHER -> <<>>

\* subtle.digest('SHA-256', data): one opaque block of 32 bytes
SubtleDigest(data) == << [sha256 |-> data] >>

\* subtle.importKey('raw', key, HMAC/SHA-256)
SubtleImportKey(keyBytes) == [raw |-> keyBytes]

\* subtle.sign('HMAC', importedKey, data): one opaque block of 32 bytes
SubtleSign(importedKey, data) == << [hmac |-> [key |-> importedKey.raw, data |-> data]] >>

HexLower == <<"0", "1", "2", "3", "4", "5", "6", "7", "8", "9", "a", "b", "c", "d", "e", "f">>

\* two hex digits of one byte, lines 112-114
HexOfUnit(u) ==
  IF IsChar(u) THEN S(<<HexLower[(OrdMap[u.c] \div 16) + 1], HexLower[(OrdMap[u.c] % 16) + 1]>>)
  ELSE IF DOMAIN u = {"byte"} THEN S(<<"0", "0">>)
  ELSE << [hex |-> u] >>

bufToHex(buf) == Concat([i \in 1..Len(buf) |-> HexOfUnit(buf[i])])

(***************************************************************************)
(* Percent-encoding                                                        *)
(***************************************************************************)
Alnum == {Ascii[i] : i \in 17..26} \cup {Ascii[i] : i \in 34..59} \cup {Ascii[i] : i \in 66..91}

\* characters encodeURIComponent leaves alone
UriUnreserved == Alnum \cup {"-", "_", ".", "!", "~", "*", "'", "(", ")"}

PercentOf(ch) == S(<<"%", HexUpper[(OrdMap[ch] \div 16) + 1], HexUpper[(OrdMap[ch] % 16) + 1]>>)

encodeURIComponent(s) ==
  Concat([i \in 1..Len(s) |->
            IF IsChar(s[i]) /\ s[i].c \notin UriUnreserved THEN PercentOf(s[i].c) ELSE <<s[i]>>])

\* .replace(/[!'()*]/g, c => '%' + hex(c)), line 137
EscapeExtra(s) ==
  Concat([i \in 1..Len(s) |->
            IF IsChar(s[i]) /\ s[i].c \in {"!", "'", "(", ")", "*"} THEN PercentOf(s[i].c) ELSE <<s[i]>>])

encodeString(str) ==
  LET s == IF str.t \in {"undefined", "null"} THEN <<>> ELSE JsString(str)
  IN EscapeExtra(encodeURIComponent(s))

Pct2F == S(<<"%", "2", "F">>)
Slash == S(<<"/">>)

(***************************************************************************)
(* The clock: instant t is t seconds after 2023-12-31T23:59:59Z            *)
(***************************************************************************)
SecondsOfDay(t) == (86399 + t) % 86400
DayOffset(t) == (86399 + t) \div 86400

getUTCFullYear(t) == IF DayOffset(t) = 0 THEN 2023 ELSE 2024
getUTCMonth(t) == IF DayOffset(t) = 0 THEN 11 ELSE 0
getUTCDate(t) == IF DayOffset(t) = 0 THEN 31 ELSE DayOffset(t)
getUTCHours(t) == SecondsOfDay(t) \div 3600
getUTCMinutes(t) == (SecondsOfDay(t) % 3600) \div 60
getUTCSeconds(t) == SecondsOfDay(t) % 60

pad(n) == IF n < 10 THEN S(<<"0">>) \o NumToStr(n) ELSE NumToStr(n)

formatDateUTC(date) ==
  LET Y == NumToStr(getUTCFullYear(date))
      M == pad(getUTCMonth(date) + 1)
      D == pad(getUTCDate(date))
      hh == pad(getUTCHours(date))
      mm == pad(getUTCMinutes(date))
      ss == pad(getUTCSeconds(date))
      dateStamp == Y \o M \o D
  IN [timeStamp |-> dateStamp \o S(<<"T">>) \o hh \o mm \o ss \o S(<<"Z">>),
      dateStamp |-> dateStamp]

(***************************************************************************)
(* The signer's helpers                                                    *)
(***************************************************************************)
getProduct == S(<<"o", "s", "s">>)

OssPrefix == S(<<"o", "s", "s", "-">>)

getSignRegion(region) ==
  IF ~Truthy(region) THEN region
  ELSE LET s == JsString(region)
       IN Str(IF StartsWith(s, OssPrefix) THEN SubSeq(s, Len(OssPrefix) + 1, Len(s)) ELSE s)

ContentType == S(<<"c", "o", "n", "t", "e", "n", "t", "-", "t", "y", "p", "e">>)
ContentMd5 == S(<<"c", "o", "n", "t", "e", "n", "t", "-", "m", "d", "5">>)
XOssPrefix == S(<<"x", "-", "o", "s", "s", "-">>)

\* the names the canonicalizer always signs when the header map has them
IsReservedHeader(v) == v = ContentType \/ v = ContentMd5 \/ StartsWith(v, XOssPrefix)

\* fixAdditionalHeaders without its trailing .sort()
fixAdditionalHeaders_unsorted(additionalHeaders) ==
  LET NotReserved(v) == ~IsReservedHeader(v)
      set == Dedup([i \in 1..Len(additionalHeaders) |-> toLowerCase(additionalHeaders[i])])
  IN SelectSeq(set, NotReserved)

\* additionalHeaders is a list of strings (String(v) leaves a string alone)
fixAdditionalHeaders(additionalHeaders) ==
  LET NotReserved(v) == ~IsReservedHeader(v)
      set == Dedup([i \in 1..Len(additionalHeaders) |-> toLowerCase(additionalHeaders[i])])
  IN Sort(SelectSeq(set, NotReserved))

V4Request == S(<<"a", "l", "i", "y", "u", "n", "_", "v", "4", "_", "r", "e", "q", "u", "e", "s", "t">>)

getCredential(date, region, accessKeyId, product) ==
  LET temp == Join(<<date, JsString(region), product, V4Request>>, Slash)
  IN IF Truthy(accessKeyId) THEN JsString(accessKeyId) \o Slash \o temp ELSE temp

Amp == S(<<"&">>)
Eq == S(<<"=">>)

\* the elements put in the order of their encoded text
buildCanonicalQueryString_sortsEncoded(queries) ==
  Join(Sort([i \in 1..Len(queries) |->
               LET v == queries[i].v
               IN IF v = Null \/ v = Undef THEN encodeString(Str(queries[i].k))
                  ELSE encodeString(Str(queries[i].k)) \o Eq \o encodeString(v)]), Amp)

buildCanonicalQueryString(queries) ==
  LET keys == Sort(ObjectKeys(queries))
  IN Join([i \in 1..Len(keys) |->
             LET v == Get(queries, keys[i])
             IN IF v = Null \/ v = Undef THEN encodeString(Str(keys[i]))
                ELSE encodeString(Str(keys[i])) \o Eq \o encodeString(v)], Amp)

\* calls of encodeString made by buildCanonicalQueryString
QueryEncodeCalls(queries) ==
  LET n == Cardinality({i \in 1..Len(queries) : queries[i].v = Null \/ queries[i].v = Undef})
  IN 2 * Len(queries) - n

\* a header map with a key spelled in two letter cases keeps the later value
lowercaseKeyHeader_keepsCase(headers) == ObjectAssign(<<>>, headers)

lowercaseKeyHeader(headers) ==
  ObjectAssign(<<>>, [i \in 1..Len(headers) |-> [k |-> toLowerCase(headers[i].k), v |-> headers[i].v]])

Colon == S(<<":">>)
Semi == S(<<";">>)
UnsignedPayload == S(<<"U", "N", "S", "I", "G", "N", "E", "D", "-", "P", "A", "Y", "L", "O", "A", "D">>)
XOssContentSha256 ==
  S(<<"x", "-", "o", "s", "s", "-", "c", "o", "n", "t", "e", "n", "t", "-", "s", "h", "a", "2", "5", "6">>)

\* the guard of line 198 testing the bucket name against null only
getCanonicalRequestThrows_nullOnly(bucketName, objectName) == Truthy(objectName) /\ bucketName = Null

\* the guard of line 198
getCanonicalRequestThrows(bucketName, objectName) == Truthy(objectName) /\ ~Truthy(bucketName)

\* the header block built from the additional-header names alone
CanonicalHeaders_additionalOnly(headers, additionalHeaders) ==
  LET names == Sort(Dedup(additionalHeaders))
      Value(k) == LET v == Get(headers, k) IN IF v.t = "string" THEN trim(v.s) ELSE JsString(v)
  IN Concat([i \in 1..Len(names) |-> names[i] \o Colon \o Value(names[i]) \o NL])

\* the canonical header block, lines 207-218; headers has lowercased keys
CanonicalHeaders(headers, additionalHeaders) ==
  LET keys == ObjectKeys(headers)
      tempHeaders == Dedup(additionalHeaders \o SelectSeq(keys, IsReservedHeader))
      names == Sort(tempHeaders)
      Value(k) == LET v == Get(headers, k) IN IF v.t = "string" THEN trim(v.s) ELSE JsString(v)
  IN Concat([i \in 1..Len(names) |-> names[i] \o Colon \o Value(names[i]) \o NL])

\* method is a string, request.headers and request.queries are objects,
\* bucketName and objectName are values, additionalHeaders a list of strings
getCanonicalRequest(method, reqHeaders, reqQueries, bucketName, objectName, additionalHeaders) ==
  LET headers == lowercaseKeyHeader(reqHeaders)
      canonicalURI == Slash
                      \o (IF Truthy(bucketName) THEN JsString(bucketName) \o Slash ELSE <<>>)
                      \o (IF Truthy(objectName) THEN JsString(objectName) ELSE <<>>)
      encodedURI == ReplaceAll(encodeString(Str(canonicalURI)), Pct2F, Slash)
      canonicalQS == buildCanonicalQueryString(reqQueries)
      canonicalHeaders == CanonicalHeaders(headers, additionalHeaders)
      additionalHeaderNames == IF Len(additionalHeaders) > 0 THEN Join(additionalHeaders, Semi) ELSE <<>>
      sha == Get(headers, XOssContentSha256)
      payloadHash == IF Truthy(sha) THEN JsString(sha) ELSE UnsignedPayload
  IN IF getCanonicalRequestThrows(bucketName, objectName)
       THEN [threw |-> TRUE, encodeCalls |-> 0, canonicalHeaders |-> <<>>, canonicalQS |-> <<>>,
             encodedURI |-> <<>>, value |-> <<>>]
       ELSE [threw |-> FALSE,
             encodeCalls |-> 1 + QueryEncodeCalls(reqQueries),
             canonicalHeaders |-> canonicalHeaders,
             canonicalQS |-> canonicalQS,
             encodedURI |-> encodedURI,
             value |-> Join(<<toUpperCase(method), encodedURI, canonicalQS, canonicalHeaders,
                              additionalHeaderNames, payloadHash>>, NL)]

Algorithm == S(<<"O", "S", "S", "4", "-", "H", "M", "A", "C", "-", "S", "H", "A", "2", "5", "6">>)

\* line 230: the scope line of the string-to-sign
StringToSignScope(region, dateTime, product) ==
  LET productName == IF Len(product) > 0 THEN product ELSE getProduct
  IN Join(<<Split(dateTime, "T")[1], JsString(region), productName, V4Request>>, Slash)

\* line 232, with hashed the awaited digest in hex
getStringToSign(dateTime, scope, hashed) == Join(<<Algorithm, dateTime, scope, hashed>>, NL)

AliyunV4 == S(<<"a", "l", "i", "y", "u", "n", "_", "v", "4">>)

\* line 238
SecretKeyBytes(accessKeySecret) == toUint8(Str(AliyunV4 \o JsString(accessKeySecret)))

\* getSignatureV4 taking the date stamp from a second reading of the clock
HmacData_rereadsClock(i, date, region, stringToSign, prod) ==
  CASE i = 1 -> Str(formatDateUTC(now).dateStamp)
    [] i = 2 -> region
    [] i = 3 -> Str(prod)
    [] i = 4 -> Str(V4Request)
    [] OTHER -> Str(stringToSign)

\* the data argument of the i-th hmacSha256Async call of getSignatureV4, lines 239-243
HmacData(i, date, region, stringToSign, prod) ==
  CASE i = 1 -> Str(date)
    [] i = 2 -> region
    [] i = 3 -> Str(prod)
    [] i = 4 -> Str(V4Request)
    [] OTHER -> Str(stringToSign)

\* a derived key handed on as the hex text of the previous output
ChainKey_hex(sig) == toUint8(Str(bufToHex(sig)))

\* lines 239-243, 129: hmacSha256Async returns new Uint8Array(sig), and the next
\* call passes it through toUint8 unchanged
ChainKey(sig) == toUint8(Bytes(sig))

Https == S(<<"h", "t", "t", "p", "s", ":", "/", "/">>)
Dot == S(<<".">>)
Aliyuncs == S(<<"a", "l", "i", "y", "u", "n", "c", "s", ".", "c", "o", "m">>)

\* buildEndpoint given the signing region instead of opts.region
buildEndpoint_signRegion(endpoint, bucket, region) ==
  IF Truthy(endpoint)
    THEN LET e == JsString(endpoint)
         IN [threw |-> FALSE,
             value |-> IF Len(e) > 0 /\ e[Len(e)] = [c |-> "/"] THEN SubSeq(e, 1, Len(e) - 1) ELSE e]
  ELSE IF ~Truthy(bucket) \/ ~Truthy(region)
    THEN [threw |-> TRUE, value |-> <<>>]
  ELSE [threw |-> FALSE,
        value |-> Https \o JsString(bucket) \o Dot \o JsString(getSignRegion(region)) \o Dot \o Aliyuncs]

\* opts is {endpoint, bucket, region}
buildEndpoint(endpoint, bucket, region) ==
  IF Truthy(endpoint)
    THEN LET e == JsString(endpoint)
         IN [threw |-> FALSE,
             value |-> IF Len(e) > 0 /\ e[Len(e)] = [c |-> "/"] THEN SubSeq(e, 1, Len(e) - 1) ELSE e]
  ELSE IF ~Truthy(bucket) \/ ~Truthy(region)
    THEN [threw |-> TRUE, value |-> <<>>]
  ELSE [threw |-> FALSE,
        value |-> Https \o JsString(bucket) \o Dot \o JsString(region) \o Dot \o Aliyuncs]

\* the path rule without the re-expansion of encoded slashes
PathEncode_keepsPct2F(s) == encodeURIComponent(s)

\* line 291: encodeURIComponent(object).replace(/%2F/g, '/')
PathEncode(s) == ReplaceAll(encodeURIComponent(s), Pct2F, Slash)

\* line 291
ObjectPath(object) ==
  IF Truthy(object) THEN Slash \o PathEncode(JsString(object))
  ELSE <<>>

\* lines 292-294
UrlQueryString(q) ==
  Join([i \in 1..Len(q) |-> encodeString(Str(q[i].k)) \o Eq \o encodeString(q[i].v)], Amp)

\* calls of encodeURIComponent and encodeString made by lines 291-294
UrlEncodeCalls(object, q) == (IF Truthy(object) THEN 1 ELSE 0) + 2 * Len(q)

\* line 296
ComposeUrl(base, objectPath, qs) ==
  base \o objectPath \o (IF Len(qs) > 0 THEN S(<<"?">>) \o qs ELSE <<>>)

XOssAdditionalHeaders ==
  S(<<"x", "-", "o", "s", "s", "-", "a", "d", "d", "i", "t", "i", "o", "n", "a", "l", "-",
      "h", "e", "a", "d", "e", "r", "s">>)
XOssCredential == S(<<"x", "-", "o", "s", "s", "-", "c", "r", "e", "d", "e", "n", "t", "i", "a", "l">>)
XOssDate == S(<<"x", "-", "o", "s", "s", "-", "d", "a", "t", "e">>)
XOssExpires == S(<<"x", "-", "o", "s", "s", "-", "e", "x", "p", "i", "r", "e", "s">>)
XOssSignatureVersion ==
  S(<<"x", "-", "o", "s", "s", "-", "s", "i", "g", "n", "a", "t", "u", "r", "e", "-",
      "v", "e", "r", "s", "i", "o", "n">>)
XOssSecurityToken ==
  S(<<"x", "-", "o", "s", "s", "-", "s", "e", "c", "u", "r", "i", "t", "y", "-", "t", "o", "k", "e", "n">>)
XOssSignature == S(<<"x", "-", "o", "s", "s", "-", "s", "i", "g", "n", "a", "t", "u", "r", "e">>)

\* lines 276-282: the query map that is signed
SigningQueries(queries, fixedAdditional, credential, timeStamp, expires, securityToken) ==
  LET q0 == ObjectAssign(<<>>, queries)
      q1 == IF Len(fixedAdditional) > 0
              THEN Put(q0, XOssAdditionalHeaders, Str(Join(fixedAdditional, Semi))) ELSE q0
      q2 == Put(q1, XOssCredential, Str(credential))
      q3 == Put(q2, XOssDate, Str(timeStamp))
      q4 == Put(q3, XOssExpires, expires)
      q5 == Put(q4, XOssSignatureVersion, Str(Algorithm))
  IN IF Truthy(securityToken) THEN Put(q5, XOssSecurityToken, securityToken) ELSE q5

\* q = queries instead of a copy: every write to q lands in the caller's object
CallerQueriesAfter_alias(callerObject, q) == q

\* line 276 builds q as a fresh object: the caller's queries object is never written
CallerQueriesAfter(callerObject, q) == callerObject

(***************************************************************************)
(* Inputs                                                                  *)
(***************************************************************************)
Obj(o) == [t |-> "object", o |-> o]
Arr(a) == [t |-> "array", a |-> a]
\* opts.queries refers to the caller's object, whose content is callerQueries
CallerRef == [t |-> "object", ref |-> "callerQueries"]

AKID == Str(S(<<"A", "K", "I", "D">>))
SECRET == Str(S(<<"S", "E", "C", "R", "E", "T">>))
\* accessKeyId and accessKeySecret of a call
Credentials == {<<AKID, SECRET>>, <<Undef, SECRET>>, <<AKID, Undef>>}
Regions == {Undef,
            Str(S(<<"o", "s", "s", "-", "c", "n", "-", "h", "a", "n", "g", "z", "h", "o", "u">>))}
Buckets == {Undef, Str(S(<<"m", "y", "-", "b", "u", "c", "k", "e", "t">>))}
Objects == {Undef, Str(S(<<"a", " ", "(", "1", ")", "/", "b", "!">>))}
Endpoints == {Undef,
              Str(S(<<"h", "t", "t", "p", "s", ":", "/", "/", "o", "s", "s", ".", "e", "x", ".", "c", "o", "m", "/">>))}

HContentType == S(<<"C", "o", "n", "t", "e", "n", "t", "-", "T", "y", "p", "e">>)
HXOssFoo == S(<<"X", "-", "O", "s", "s", "-", "F", "o", "o">>)
HXCustom1 == S(<<"X", "-", "C", "u", "s", "t", "o", "m", "-", "1">>)
HXCustom1Lower == S(<<"x", "-", "c", "u", "s", "t", "o", "m", "-", "1">>)
HXCustom1Upper == S(<<"X", "-", "C", "U", "S", "T", "O", "M", "-", "1">>)
HHost == S(<<"H", "o", "s", "t">>)
HContentMd5 == S(<<"C", "o", "n", "t", "e", "n", "t", "-", "M", "D", "5">>)
HXOssMeta == S(<<"x", "-", "o", "s", "s", "-", "m", "e", "t", "a", "-", "a">>)
HAbsent == S(<<"z", "z">>)
TextPlain == Str(S(<<" ", "t", "e", "x", "t", "/", "p", "l", "a", "i", "n", " ">>))

\* method, expires, headers, additionalHeaders, queries and securityToken of a call
Shapes ==
  << [method |-> Undef, expires |-> Undef, headers |-> Undef, additionalHeaders |-> Undef,
      queries |-> Undef, securityToken |-> Undef],
     [method |-> Str(S(<<"p", "u", "t">>)), expires |-> Num(3600),
      headers |-> Obj(<<[k |-> HContentType, v |-> TextPlain]>>),
      additionalHeaders |-> Arr(<<HContentType, HXOssFoo, HXCustom1>>),
      queries |-> <<[k |-> S(<<"b">>), v |-> Str(S(<<"1", " ", "2">>))], [k |-> S(<<"a">>), v |-> Null]>>,
      securityToken |-> Str(S(<<"t", "o", "k">>))],
     [method |-> Undef, expires |-> Undef, headers |-> Undef, additionalHeaders |-> Undef,
      queries |-> <<[k |-> XOssSignature, v |-> Str(S(<<"z", "z">>))],
                    [k |-> XOssAdditionalHeaders, v |-> Str(S(<<"h">>))],
                    [k |-> XOssSecurityToken, v |-> Str(S(<<"t">>))]>>,
      securityToken |-> Undef],
     [method |-> Str(S(<<"G", "E", "T">>)), expires |-> Num(60),
      headers |-> Obj(<<[k |-> HXCustom1, v |-> Str(S(<<"v">>))],
                        [k |-> HXOssMeta, v |-> Str(S(<<"m">>))],
                        [k |-> HHost, v |-> Str(S(<<"h">>))]>>),
      additionalHeaders |-> Arr(<<HXCustom1Lower, HHost, HXCustom1Upper>>),
      queries |-> <<>>, securityToken |-> Undef],
     [method |-> Undef, expires |-> Num(0),
      headers |-> Obj(<<[k |-> HContentMd5, v |-> Str(S(<<" ", "m", " ", "d", " ", " ">>))]>>),
      additionalHeaders |-> Arr(<<HAbsent>>),
      queries |-> Undef, securityToken |-> Str(<<>>)] >>

OptsOf(id, secret, region, bucket, object, endpoint, shape) ==
  [accessKeyId |-> id, accessKeySecret |-> secret, region |-> region, bucket |-> bucket,
   object |-> object, endpoint |-> endpoint, method |-> shape.method, expires |-> shape.expires,
   headers |-> shape.headers, additionalHeaders |-> shape.additionalHeaders,
   queries |-> IF shape.queries = Undef THEN Undef ELSE CallerRef,
   securityToken |-> shape.securityToken]

NoOpts == OptsOf(Undef, Undef, Undef, Undef, Undef, Undef, Shapes[1])

(***************************************************************************)
(* onRequest: parameters, JSON and the merge with the environment          *)
(***************************************************************************)
KAccessKeyId == S(<<"a", "c", "c", "e", "s", "s", "K", "e", "y", "I", "d">>)
KAccessKeySecret == S(<<"a", "c", "c", "e", "s", "s", "K", "e", "y", "S", "e", "c", "r", "e", "t">>)
KRegion == S(<<"r", "e", "g", "i", "o", "n">>)
KBucket == S(<<"b", "u", "c", "k", "e", "t">>)
KEndpoint == S(<<"e", "n", "d", "p", "o", "i", "n", "t">>)
KStsToken == S(<<"s", "t", "s", "T", "o", "k", "e", "n">>)
KCloudBoxId == S(<<"c", "l", "o", "u", "d", "B", "o", "x", "I", "d">>)
KOptions == S(<<"o", "p", "t", "i", "o", "n", "s">>)
KObjectName == S(<<"o", "b", "j", "e", "c", "t", "N", "a", "m", "e">>)
KObject == S(<<"o", "b", "j", "e", "c", "t">>)
KKey == S(<<"k", "e", "y">>)
KMethod == S(<<"m", "e", "t", "h", "o", "d">>)
KExpires == S(<<"e", "x", "p", "i", "r", "e", "s">>)
KHeaders == S(<<"h", "e", "a", "d", "e", "r", "s">>)
KQueries == S(<<"q", "u", "e", "r", "i", "e", "s">>)
KAdditionalHeaders == S(<<"a", "d", "d", "i", "t", "i", "o", "n", "a", "l", "H", "e", "a", "d", "e", "r", "s">>)
KSecurityToken == S(<<"s", "e", "c", "u", "r", "i", "t", "y", "T", "o", "k", "e", "n">>)
KUrl == S(<<"u", "r", "l">>)
KError == S(<<"e", "r", "r", "o", "r">>)

\* lines 361-367: the environment names tried for a field, in order
EnvNames(field) ==
  CASE field = KAccessKeyId ->
         << S(<<"O", "S", "S", "_", "A", "C", "C", "E", "S", "S", "_", "K", "E", "Y", "_", "I", "D">>),
            S(<<"A", "C", "C", "E", "S", "S", "_", "K", "E", "Y", "_", "I", "D">>),
            S(<<"A", "C", "C", "E", "S", "S", "K", "E", "Y", "I", "D">>) >>
    [] field = KAccessKeySecret ->
         << S(<<"O", "S", "S", "_", "A", "C", "C", "E", "S", "S", "_", "K", "E", "Y", "_", "S", "E", "C", "R", "E", "T">>),
            S(<<"A", "C", "C", "E", "S", "S", "_", "K", "E", "Y", "_", "S", "E", "C", "R", "E", "T">>),
            S(<<"A", "C", "C", "E", "S", "S", "S", "E", "C", "R", "E", "T">>) >>
    [] field = KBucket ->
         << S(<<"O", "S", "S", "_", "B", "U", "C", "K", "E", "T">>),
            S(<<"B", "U", "C", "K", "E", "T">>) >>
    [] field = KRegion ->
         << S(<<"O", "S", "S", "_", "R", "E", "G", "I", "O", "N">>),
            S(<<"R", "E", "G", "I", "O", "N">>) >>
    [] field = KEndpoint ->
         << S(<<"O", "S", "S", "_", "E", "N", "D", "P", "O", "I", "N", "T">>),
            S(<<"E", "N", "D", "P", "O", "I", "N", "T">>) >>
    [] field = KStsToken ->
         << S(<<"O", "S", "S", "_", "S", "T", "S", "_", "T", "O", "K", "E", "N">>),
            S(<<"S", "T", "S", "_", "T", "O", "K", "E", "N">>) >>
    [] field = KCloudBoxId ->
         << S(<<"O", "S", "S", "_", "C", "L", "O", "U", "D", "B", "O", "X", "_", "I", "D">>),
            S(<<"C", "L", "O", "U", "D", "_", "B", "O", "X", "_", "I", "D">>),
            S(<<"C", "L", "O", "U", "D", "B", "O", "X", "I", "D">>) >>

\* line 330: the fields that may be given at the top level of the request
TopLevelFields == <<KAccessKeyId, KAccessKeySecret, KRegion, KBucket, KEndpoint, KStsToken, KCloudBoxId>>

\* lines 361-367, in the order of the assignments
EnvFields == <<KAccessKeyId, KAccessKeySecret, KBucket, KRegion, KEndpoint, KStsToken, KCloudBoxId>>

\* lines 313-317; body is null or the object request.json() resolved to
getParam(body, queryParams, key) ==
  IF Truthy(body) /\ HasKey(body.o, key) THEN Get(body.o, key)
  ELSE IF HasKey(queryParams, key) THEN Get(queryParams, key)
  ELSE Undef

Quote == S(<<"\"">>)
Backslash == S(<<"\\">>)

\* the indices of s that hold the unit u, ascending
UnitPositions(s, u) == LET Hit(i) == s[i] = u IN SelectSeq(Indices(s), Hit)

\* s cut at every occurrence of the text pat
SplitOn(s, pat) ==
  LET mark == [cut |-> pat]
      t == ReplaceAll(s, pat, <<mark>>)
      seps == UnitPositions(t, mark)
      From(k) == IF k = 1 THEN 1 ELSE seps[k - 1] + 1
      To(k) == IF k = Len(seps) + 1 THEN Len(t) ELSE seps[k] - 1
  IN [k \in 1..(Len(seps) + 1) |-> SubSeq(t, From(k), To(k))]

\* JSON.parse for the texts {} and {"k":"v",...} with keys and values free of
\* quotes and backslashes, and for texts that are no JSON at all (ok = FALSE:
\* JSON.parse throws); other JSON values are not in its domain
JsonParse(text) ==
  LET open == S(<<"{", "\"">>)
      close == S(<<"\"", "}">>)
      inner == SubSeq(text, 3, Len(text) - 2)
      items == SplitOn(inner, S(<<"\"", ",", "\"">>))
      Pair(i) == SplitOn(items[i], S(<<"\"", ":", "\"">>))
      Clean(s) == \A j \in 1..Len(s) : s[j] # [c |-> "\""] /\ s[j] # [c |-> "\\"]
      wellFormed == /\ Len(text) >= 4
                    /\ StartsWith(text, open)
                    /\ SubSeq(text, Len(text) - 1, Len(text)) = close
                    /\ \A i \in 1..Len(items) :
                         Len(Pair(i)) = 2 /\ Clean(Pair(i)[1]) /\ Clean(Pair(i)[2])
  IN IF text = S(<<"{", "}">>) THEN [ok |-> TRUE, value |-> <<>>]
     ELSE IF wellFormed
       THEN [ok |-> TRUE,
             value |-> ObjectAssign(<<>>, [i \in 1..Len(items) |-> [k |-> Pair(i)[1], v |-> Str(Pair(i)[2])]])]
     ELSE [ok |-> FALSE, value |-> <<>>]

\* the quoted form of a string in JSON.stringify
JsonQuote(s) ==
  Quote \o Concat([i \in 1..Len(s) |->
                     IF s[i] = [c |-> "\""] \/ s[i] = [c |-> "\\"] THEN Backslash \o <<s[i]>>
                     ELSE <<s[i]>>]) \o Quote

\* JSON.stringify of an object whose values are strings or undefined
JsonStringify(obj) ==
  LET Defined(i) == obj[i].v # Undef
      kept == SelectSeq(Indices(obj), Defined)
  IN S(<<"{">>)
     \o Join([i \in 1..Len(kept) |-> JsonQuote(obj[kept[i]].k) \o Colon \o JsonQuote(JsString(obj[kept[i]].v))],
             S(<<",">>))
     \o S(<<"}">>)

\* lines 320-327
ParseOptions(v) ==
  LET given == IF Truthy(v) THEN v ELSE Obj(<<>>)
  IN IF given.t = "string"
       THEN (LET p == JsonParse(given.s) IN IF p.ok THEN p.value ELSE <<>>)
       ELSE given.o

\* an override that leaves a field of options alone when options has it
RECURSIVE TopLevelOverride_keepsOptions(_, _, _, _)
TopLevelOverride_keepsOptions(options, body, queryParams, fields) ==
  IF Len(fields) = 0 THEN options
  ELSE LET v == getParam(body, queryParams, fields[1])
       IN TopLevelOverride_keepsOptions(
            IF v # Undef /\ ~HasKey(options, fields[1]) THEN Put(options, fields[1], v) ELSE options,
            body, queryParams, Tail(fields))

\* lines 330-333, for the listed fields in order
RECURSIVE TopLevelOverride(_, _, _, _)
TopLevelOverride(options, body, queryParams, fields) ==
  IF Len(fields) = 0 THEN options
  ELSE LET v == getParam(body, queryParams, fields[1])
       IN TopLevelOverride(IF v # Undef THEN Put(options, fields[1], v) ELSE options,
                           body, queryParams, Tail(fields))

\* lines 352-357
getEnvVal(env, names) ==
  LET Usable(i) == Get(env, names[i]) # Undef /\ Get(env, names[i]) # Null
      hits == SelectSeq(Indices(names), Usable)
  IN IF Len(hits) = 0 THEN Undef ELSE Get(env, names[hits[1]])

\* lines 361-367: options[f] = options[f] || getEnvVal(names of f)
RECURSIVE EnvDefaults(_, _, _)
EnvDefaults(options, env, fields) ==
  IF Len(fields) = 0 THEN options
  ELSE LET cur == Get(options, fields[1])
       IN EnvDefaults(Put(options, fields[1], IF Truthy(cur) THEN cur ELSE getEnvVal(env, EnvNames(fields[1]))),
                      env, Tail(fields))

\* the options object of line 378, from lines 320-333 and 359-367
MergedOptions(body, queryParams, env) ==
  EnvDefaults(TopLevelOverride(ParseOptions(getParam(body, queryParams, KOptions)),
                               body, queryParams, TopLevelFields),
              env, EnvFields)

\* the validation of line 370 without its test of the bucket
MissingRequired_noBucket(options) ==
  ~Truthy(Get(options, KAccessKeyId)) \/ ~Truthy(Get(options, KAccessKeySecret))

\* line 370 (options is an object there, hence truthy)
MissingRequired(options) ==
  \/ ~Truthy(Get(options, KAccessKeyId))
  \/ ~Truthy(Get(options, KAccessKeySecret))
  \/ ~Truthy(Get(options, KBucket))

\* line 338
RequestObjectName(body, queryParams) ==
  LET a == getParam(body, queryParams, KObjectName)
      b == getParam(body, queryParams, KObject)
  IN IF Truthy(a) THEN a ELSE IF Truthy(b) THEN b ELSE getParam(body, queryParams, KKey)

\* lines 255-268 applied to the options object of line 378: signatureUrlV4 reads
\* its first argument only (method, expires, requestParts, objectName and
\* additionalHeaders are passed as further arguments, which it does not declare)
OptsFromOptions(options) ==
  [accessKeyId |-> Get(options, KAccessKeyId), accessKeySecret |-> Get(options, KAccessKeySecret),
   region |-> Get(options, KRegion), bucket |-> Get(options, KBucket),
   object |-> Get(options, KObject), endpoint |-> Get(options, KEndpoint),
   method |-> Get(options, KMethod), expires |-> Get(options, KExpires),
   headers |-> Get(options, KHeaders), additionalHeaders |-> Get(options, KAdditionalHeaders),
   queries |-> Get(options, KQueries), securityToken |-> Get(options, KSecurityToken)]


(***************************************************************************)
(* State                                                                   *)
(***************************************************************************)
\* the locals of the signatureUrlV4 call in progress
LocIdle ==
  [date |-> 0, clockReads |-> 0, timeStamp |-> <<>>, dateStamp |-> <<>>, signRegion |-> Undef,
   fixedAdditional |-> <<>>, q |-> <<>>, canonicalRequest |-> <<>>, canonicalHeaders |-> <<>>,
   encodeCalls |-> 0, stringToSign |-> <<>>, hmacIdx |-> 0, key |-> <<>>, data |-> Undef,
   importedKey |-> [raw |-> <<>>], kdf |-> <<>>, signature |-> <<>>, url |-> <<>>,
   error |-> "", cryptoCalls |-> <<>>, subtleCalls |-> <<>>, returnedAt |-> 0]

NoLast == [some |-> FALSE]

FxIdle == [pc |-> "off", input |-> <<>>, once |-> <<>>, twice |-> <<>>]

\* the onRequest call in progress: the request, context.env, the options object
\* and the arguments of line 378, and the responses returned
HttpIdle ==
  [pc |-> "off", body |-> Null, query |-> <<>>, env |-> <<>>, options |-> <<>>,
   objectName |-> Undef, signerCalls |-> 0, responses |-> <<>>]

\* the event names and the callbacks of the EventBus instance
Events == {"message:received", "user:joined"}
Callbacks == {"f", "g"}

\* this.listeners of a new EventBus (line 24): no event has a listener array
NoListeners == [e \in Events |-> [has |-> FALSE, list |-> <<>>]]

\* an EventBus: its listeners object, the emit calls in progress (innermost
\* last) and, for the record, the pairs (event, callback) for which off has
\* returned with no later on
BusIdle == [pc |-> "off", listeners |-> NoListeners, stack |-> <<>>, removed |-> {}]

\* a UIManager: roster, messages and the room's list in localStorage
UiIdle == [pc |-> "off"]

Init ==
  /\ now = 0
  /\ subtle \in BOOLEAN
  /\ opts = NoOpts
  /\ callerQueries = <<>>
  /\ pc = "idle"
  /\ loc = LocIdle
  /\ last = NoLast
  /\ fx = FxIdle
  /\ http = HttpIdle
  /\ bus = BusIdle
  /\ ui = UiIdle

(***************************************************************************)
(* signatureUrlV4                                                          *)
(***************************************************************************)
GET == S(<<"G", "E", "T">>)

\* lines 255-285, up to the first await (subtle.digest in sha256HexAsync)
Enter(o, callerObject, lst) ==
  LET method == JsString(Default(o.method, Str(GET)))
      expires == Default(o.expires, Num(60))
      headers == IF o.headers = Undef THEN <<>> ELSE o.headers.o
      queries == IF o.queries = Undef THEN <<>> ELSE callerObject
      additionalHeaders == IF o.additionalHeaders = Undef THEN <<>> ELSE o.additionalHeaders.a
      product == getProduct
      signRegion == getSignRegion(o.region)
      date == now
      stamps == formatDateUTC(date)
      fixedAdditional == fixAdditionalHeaders(additionalHeaders)
      q == SigningQueries(queries, fixedAdditional,
                          getCredential(stamps.dateStamp, signRegion, o.accessKeyId, product),
                          stamps.timeStamp, expires, o.securityToken)
      cr == getCanonicalRequest(method, headers, q, o.bucket, o.object, fixedAdditional)
      scope == StringToSignScope(signRegion, stamps.timeStamp, product)
      l1 == [LocIdle EXCEPT !.date = date, !.clockReads = 1, !.timeStamp = stamps.timeStamp,
                            !.dateStamp = stamps.dateStamp, !.signRegion = signRegion,
                            !.fixedAdditional = fixedAdditional, !.q = q,
                            !.encodeCalls = cr.encodeCalls]
      l2 == [l1 EXCEPT !.canonicalRequest = cr.value, !.canonicalHeaders = cr.canonicalHeaders,
                       !.stringToSign = scope, !.cryptoCalls = <<"sha256HexAsync">>]
  IN /\ opts' = o
     /\ last' = lst
     /\ callerQueries' = IF o.queries = Undef THEN callerObject ELSE CallerQueriesAfter(callerObject, q)
     /\ IF cr.threw
          THEN /\ pc' = "thrown"
               /\ loc' = [l1 EXCEPT !.error = "bucketName required when objectName provided"]
          ELSE IF ~subtle
          THEN /\ pc' = "thrown"
               /\ loc' = [l2 EXCEPT !.error = "Web Crypto API (crypto.subtle) is required"]
          ELSE /\ pc' = "digest"
               /\ loc' = [l2 EXCEPT !.data = Str(cr.value), !.subtleCalls = <<"digest">>]
     /\ UNCHANGED <<now, subtle, fx, bus, ui>>

\* a caller invokes signatureUrlV4(opts) with a new opts object
Begin ==
  /\ pc = "idle"
  /\ http.pc = "off"
  /\ UNCHANGED http
  /\ \E cred \in Credentials, region \in Regions, bucket \in Buckets,
        object \in Objects, endpoint \in Endpoints, n \in 1..Len(Shapes) :
       Enter(OptsOf(cred[1], cred[2], region, bucket, object, endpoint, Shapes[n]),
             IF Shapes[n].queries = Undef THEN <<>> ELSE Shapes[n].queries,
             NoLast)

\* what is remembered of the call that just returned
Summary ==
  [some |-> TRUE, opts |-> opts, date |-> loc.date, canonicalHeaders |-> loc.canonicalHeaders,
   signature |-> loc.signature, url |-> loc.url]

\* the caller invokes signatureUrlV4 again with the same opts object
BeginAgain ==
  /\ pc = "returned"
  /\ last = NoLast
  /\ http.pc = "off"
  /\ UNCHANGED http
  /\ Enter(opts, callerQueries, Summary)

CaseVariant(headers, mode) ==
  [i \in 1..Len(headers) |->
     [k |-> IF mode = "lower" THEN toLowerCase(headers[i].k) ELSE toUpperCase(headers[i].k),
      v |-> headers[i].v]]

\* the caller invokes signatureUrlV4 again, the header map keys in another letter case
BeginCaseVariant ==
  /\ pc = "returned"
  /\ last = NoLast
  /\ http.pc = "off"
  /\ UNCHANGED http
  /\ opts.headers # Undef
  /\ \E mode \in {"lower", "upper"} :
       LET h == CaseVariant(opts.headers.o, mode)
       IN /\ h # opts.headers.o
          /\ Cardinality(Range(ObjectKeys(h))) = Len(h)
          /\ Enter([opts EXCEPT !.headers = Obj(h)], callerQueries, Summary)

\* subtle.digest resolves: lines 122, 232, then 236-239 and 128-130
DigestDone ==
  /\ pc = "digest"
  /\ LET hashed == bufToHex(SubtleDigest(toUint8(loc.data)))
         stringToSign == getStringToSign(loc.timeStamp, loc.stringToSign, hashed)
         prod == getProduct
         kSecret == SecretKeyBytes(opts.accessKeySecret)
     IN loc' = [loc EXCEPT !.stringToSign = stringToSign, !.hmacIdx = 1,
                           !.key = toUint8(Bytes(kSecret)),
                           !.data = HmacData(1, loc.dateStamp, loc.signRegion, stringToSign, prod),
                           !.cryptoCalls = Append(@, "hmacSha256Async"),
                           !.subtleCalls = Append(@, "importKey")]
  /\ pc' = "importKey"
  /\ UNCHANGED <<now, subtle, opts, callerQueries, last, fx, http, bus, ui>>

\* subtle.importKey resolves: line 131 calls subtle.sign
ImportKeyDone ==
  /\ pc = "importKey"
  /\ loc' = [loc EXCEPT !.importedKey = SubtleImportKey(loc.key),
                        !.kdf = Append(@, [key |-> loc.key, data |-> toUint8(loc.data)]),
                        !.subtleCalls = Append(@, "sign")]
  /\ pc' = "sign"
  /\ UNCHANGED <<now, subtle, opts, callerQueries, last, fx, http, bus, ui>>

\* subtle.sign resolves: line 132, then the next step of getSignatureV4 or lines 244, 286-296
SignDone ==
  /\ pc = "sign"
  /\ LET sig == SubtleSign(loc.importedKey, loc.kdf[Len(loc.kdf)].data)
         signature == bufToHex(sig)
         q == Put(loc.q, XOssSignature, Str(signature))
         base == buildEndpoint(opts.endpoint, opts.bucket, opts.region)
         done == [loc EXCEPT !.signature = signature, !.q = q]
     IN IF loc.hmacIdx < 5
          THEN /\ loc' = [loc EXCEPT !.hmacIdx = @ + 1, !.key = ChainKey(sig),
                                     !.data = HmacData(loc.hmacIdx + 1, loc.dateStamp, loc.signRegion,
                                                       loc.stringToSign, getProduct),
                                     !.cryptoCalls = Append(@, "hmacSha256Async"),
                                     !.subtleCalls = Append(@, "importKey")]
               /\ pc' = "importKey"
               /\ UNCHANGED callerQueries
          ELSE /\ callerQueries' = IF opts.queries = Undef THEN callerQueries
                                   ELSE CallerQueriesAfter(callerQueries, q)
               /\ IF base.threw
                    THEN /\ pc' = "thrown"
                         /\ loc' = [done EXCEPT !.error = "bucket and region or endpoint required"]
                    ELSE /\ pc' = "returned"
                         /\ loc' = [done EXCEPT !.url = ComposeUrl(base.value, ObjectPath(opts.object),
                                                                   UrlQueryString(q)),
                                                 !.encodeCalls = @ + UrlEncodeCalls(opts.object, q),
                                                 !.returnedAt = now]
  /\ UNCHANGED <<now, subtle, opts, last, fx, http, bus, ui>>

\* a rejection answered by issuing the rejected subtle call a second time
RejectOutcome_retriesOnce(p, l) ==
  LET n == Len(l.subtleCalls)
  IN IF n >= 2 /\ l.subtleCalls[n - 1] = l.subtleCalls[n]
       THEN [pc |-> "thrown", loc |-> [l EXCEPT !.error = "primitive failed"]]
       ELSE [pc |-> p, loc |-> [l EXCEPT !.subtleCalls = Append(@, @[n])]]

\* the awaited subtle call rejects at position p: none of sha256HexAsync,
\* hmacSha256Async, getStringToSign, getSignatureV4 and signatureUrlV4 has a
\* try/catch, so the rejection leaves every one of them
RejectOutcome(p, l) == [pc |-> "thrown", loc |-> [l EXCEPT !.error = "primitive failed"]]

\* the awaited subtle operation rejects: the error propagates out of signatureUrlV4
PrimitiveRejects ==
  /\ pc \in {"digest", "importKey", "sign"}
  /\ LET out == RejectOutcome(pc, loc)
     IN /\ pc' = out.pc
        /\ loc' = out.loc
  /\ UNCHANGED <<now, subtle, opts, callerQueries, last, fx, http, bus, ui>>

(***************************************************************************)
(* onRequest                                                               *)
(***************************************************************************)
MissingMessage == << [msg |-> "Missing required option(s)"] >>

\* String(err) of the error the signer threw: "Error: " and the message of an
\* Error the signer made itself, one opaque text for a rejection of the platform
ErrorString(tag) ==
  IF tag = "primitive failed" THEN << [thrown |-> tag] >>
  ELSE S(<<"E", "r", "r", "o", "r", ":", " ">>) \o << [msg |-> tag] >>

\* a catch block that answers 200 with the error text as the url
SignerResponse_always200(p, l) ==
  [status |-> 200,
   body |-> JsonStringify(<<[k |-> KUrl, v |-> Str(IF p = "returned" THEN l.url ELSE ErrorString(l.error))]>>)]

\* lines 377-382: the response for a signer call that ended at p with locals l
SignerResponse(p, l) ==
  IF p = "returned"
    THEN [status |-> 200, body |-> JsonStringify(<<[k |-> KUrl, v |-> Str(l.url)]>>)]
    ELSE [status |-> 500, body |-> JsonStringify(<<[k |-> KError, v |-> Str(ErrorString(l.error))]>>)]

ENV_OSS_BUCKET == S(<<"O", "S", "S", "_", "B", "U", "C", "K", "E", "T">>)
ENV_OSS_ENDPOINT == S(<<"O", "S", "S", "_", "E", "N", "D", "P", "O", "I", "N", "T">>)
ENV_ENDPOINT == S(<<"E", "N", "D", "P", "O", "I", "N", "T">>)
ENV_ACCESS_KEY_ID == S(<<"A", "C", "C", "E", "S", "S", "_", "K", "E", "Y", "_", "I", "D">>)
ENV_ACCESSSECRET == S(<<"A", "C", "C", "E", "S", "S", "S", "E", "C", "R", "E", "T">>)
ENV_BUCKET == S(<<"B", "U", "C", "K", "E", "T">>)
ENV_OSS_REGION == S(<<"O", "S", "S", "_", "R", "E", "G", "I", "O", "N">>)
EnvBucket == Str(S(<<"e", "n", "v", "-", "b", "u", "c", "k", "e", "t">>))
RegionHz == Str(S(<<"o", "s", "s", "-", "c", "n", "-", "h", "a", "n", "g", "z", "h", "o", "u">>))
MyBucket == Str(S(<<"m", "y", "-", "b", "u", "c", "k", "e", "t">>))
EndpointEx == Str(S(<<"h", "t", "t", "p", "s", ":", "/", "/", "o", "s", "s", ".", "e", "x", ".", "c", "o", "m", "/">>))
ObjectATxt == Str(S(<<"a", ".", "t", "x", "t">>))
ObjectK1 == Str(S(<<"k", "/", "1">>))
OptionsText ==
  Str(JsonStringify(<<[k |-> KAccessKeyId, v |-> AKID], [k |-> KAccessKeySecret, v |-> SECRET],
                      [k |-> KBucket, v |-> MyBucket]>>))

\* the requests: body is what request.json() gives (null when it rejects),
\* query the entries of url.searchParams
Requests ==
  << [body |-> Null,
      query |-> <<[k |-> KAccessKeyId, v |-> AKID], [k |-> KAccessKeySecret, v |-> SECRET],
                  [k |-> KBucket, v |-> MyBucket], [k |-> KRegion, v |-> RegionHz],
                  [k |-> KObjectName, v |-> ObjectATxt]>>],
     [body |-> Obj(<<[k |-> KOptions,
                      v |-> Obj(<<[k |-> KAccessKeyId, v |-> AKID], [k |-> KAccessKeySecret, v |-> SECRET],
                                  [k |-> KBucket, v |-> MyBucket], [k |-> KRegion, v |-> RegionHz],
                                  [k |-> KObject, v |-> ObjectK1]>>)],
                     [k |-> KKey, v |-> ObjectK1]>>),
      query |-> <<>>],
     [body |-> Null,
      query |-> <<[k |-> KAccessKeyId, v |-> AKID], [k |-> KAccessKeySecret, v |-> SECRET]>>],
     [body |-> Obj(<<[k |-> KBucket, v |-> Str(<<>>)]>>),
      query |-> <<[k |-> KBucket, v |-> MyBucket], [k |-> KAccessKeyId, v |-> AKID],
                  [k |-> KAccessKeySecret, v |-> SECRET], [k |-> KEndpoint, v |-> EndpointEx]>>],
     [body |-> Null, query |-> <<>>],
     [body |-> Null,
      query |-> <<[k |-> KOptions, v |-> OptionsText], [k |-> KEndpoint, v |-> EndpointEx]>>] >>

\* context.env
Envs ==
  << <<>>,
     <<[k |-> ENV_OSS_BUCKET, v |-> EnvBucket]>>,
     <<[k |-> ENV_ACCESS_KEY_ID, v |-> AKID], [k |-> ENV_ACCESSSECRET, v |-> SECRET],
       [k |-> ENV_BUCKET, v |-> EnvBucket], [k |-> ENV_OSS_REGION, v |-> RegionHz],
       [k |-> ENV_OSS_ENDPOINT, v |-> Str(<<>>)], [k |-> ENV_ENDPOINT, v |-> EndpointEx]>> >>

\* lines 299-305: onRequest is called and awaits request.json()
Receive ==
  /\ pc = "idle"
  /\ http.pc = "off"
  /\ \E r \in 1..Len(Requests), e \in 1..Len(Envs) :
       http' = [HttpIdle EXCEPT !.pc = "json", !.body = Requests[r].body,
                                !.query = Requests[r].query, !.env = Envs[e]]
  /\ UNCHANGED <<now, subtle, opts, callerQueries, pc, loc, last, fx, bus, ui>>

\* request.json() has settled: lines 306-378, up to the first await inside
\* signatureUrlV4, or up to the 400 response of line 371
JsonDone ==
  /\ http.pc = "json"
  /\ LET options == MergedOptions(http.body, http.query, http.env)
         objectName == RequestObjectName(http.body, http.query)
         asked == [http EXCEPT !.options = options, !.objectName = objectName]
     IN IF MissingRequired(options)
          THEN /\ http' = [asked EXCEPT !.pc = "responded",
                                        !.responses = Append(@, [status |-> 400,
                                                                 body |-> JsonStringify(<<[k |-> KError, v |-> Str(MissingMessage)]>>)])]
               /\ UNCHANGED <<now, subtle, opts, callerQueries, pc, loc, last, fx, bus, ui>>
          ELSE /\ http' = [asked EXCEPT !.pc = "signing", !.signerCalls = @ + 1]
               /\ Enter(OptsFromOptions(options), <<>>, NoLast)

\* the awaited signatureUrlV4 has settled: lines 379 and 380-381
Respond ==
  /\ http.pc = "signing"
  /\ pc \in {"returned", "thrown"}
  /\ http' = [http EXCEPT !.pc = "responded", !.responses = Append(@, SignerResponse(pc, loc))]
  /\ UNCHANGED <<now, subtle, opts, callerQueries, pc, loc, last, fx, bus, ui>>

\* the caller is done with the outcome of the call and with its opts object
Settle ==
  /\ \/ pc \in {"returned", "thrown"} /\ http.pc \in {"off", "responded"}
     \/ pc = "idle" /\ http.pc = "responded"
  /\ pc' = "idle"
  /\ loc' = LocIdle
  /\ opts' = NoOpts
  /\ callerQueries' = <<>>
  /\ last' = NoLast
  /\ http' = HttpIdle
  /\ UNCHANGED <<now, subtle, fx, bus, ui>>

\* the wall clock advances by one second
Tick ==
  /\ now < MaxTick
  /\ now' = now + 1
  /\ UNCHANGED <<subtle, opts, callerQueries, pc, loc, last, fx, http, bus, ui>>

Next ==
  \/ Begin
  \/ BeginAgain
  \/ BeginCaseVariant
  \/ DigestDone
  \/ ImportKeyDone
  \/ SignDone
  \/ PrimitiveRejects
  \/ Receive
  \/ JsonDone
  \/ Respond
  \/ Settle
  \/ Tick

Spec == Init /\ [][Next]_vars

(***************************************************************************)
(* fixAdditionalHeaders applied to every short list of header names        *)
(***************************************************************************)
HeaderNames ==
  {HContentType, HXOssFoo, HXCustom1, HXCustom1Lower, HContentMd5, HHost, S(<<"b">>)}

HeaderLists == UNION {[1..n -> HeaderNames] : n \in 0..MaxFixLen}

InitFix ==
  /\ now = 0
  /\ subtle = TRUE
  /\ opts = NoOpts
  /\ callerQueries = <<>>
  /\ pc = "idle"
  /\ loc = LocIdle
  /\ last = NoLast
  /\ http = HttpIdle
  /\ bus = BusIdle
  /\ ui = UiIdle
  /\ \E list \in HeaderLists : fx = [pc |-> "input", input |-> list, once |-> <<>>, twice |-> <<>>]

\* fixAdditionalHeaders(input)
FixOnce ==
  /\ fx.pc = "input"
  /\ fx' = [fx EXCEPT !.pc = "once", !.once = fixAdditionalHeaders(fx.input)]
  /\ UNCHANGED <<now, subtle, opts, callerQueries, pc, loc, last, http, bus, ui>>

\* fixAdditionalHeaders(fixAdditionalHeaders(input))
FixTwice ==
  /\ fx.pc = "once"
  /\ fx' = [fx EXCEPT !.pc = "twice", !.twice = fixAdditionalHeaders(fx.once)]
  /\ UNCHANGED <<now, subtle, opts, callerQueries, pc, loc, last, http, bus, ui>>

NextFix == FixOnce \/ FixTwice

SpecFix == InitFix /\ [][NextFix]_vars

(***************************************************************************)
(* buildCanonicalQueryString applied to every small query map              *)
(***************************************************************************)
QueryKeys == {S(<<"a", "-">>), S(<<"a", "/">>), S(<<"b">>), S(<<"B">>)}

QueryValues == {Null, Undef, Str(<<>>), Str(S(<<"x", " ", "y">>))}

\* the query maps of at most MaxQueryLen keys, in every insertion order
QueryMaps ==
  UNION {{[i \in 1..n |-> [k |-> ks[i], v |-> vs[i]]] :
            ks \in {f \in [1..n -> QueryKeys] : \A i, j \in 1..n : f[i] = f[j] => i = j},
            vs \in [1..n -> QueryValues]} : n \in 0..MaxQueryLen}

Reverse(s) == [i \in 1..Len(s) |-> s[Len(s) + 1 - i]]

Rotate(s) == IF Len(s) = 0 THEN s ELSE Tail(s) \o <<s[1]>>

InitQS ==
  /\ now = 0
  /\ subtle = TRUE
  /\ opts = NoOpts
  /\ callerQueries = <<>>
  /\ pc = "idle"
  /\ loc = LocIdle
  /\ last = NoLast
  /\ http = HttpIdle
  /\ bus = BusIdle
  /\ ui = UiIdle
  /\ \E m \in QueryMaps : fx = [pc |-> "qs.input", input |-> m, other |-> m, out |-> <<>>, out2 |-> <<>>]

\* buildCanonicalQueryString(input)
BuildQS ==
  /\ fx.pc = "qs.input"
  /\ fx' = [fx EXCEPT !.pc = "qs.built", !.out = buildCanonicalQueryString(fx.input)]
  /\ UNCHANGED <<now, subtle, opts, callerQueries, pc, loc, last, http, bus, ui>>

\* buildCanonicalQueryString of the same entries inserted in another order
BuildQSReordered ==
  /\ fx.pc = "qs.built"
  /\ \E m \in {Reverse(fx.input), Rotate(fx.input)} :
       fx' = [fx EXCEPT !.pc = "qs.reordered", !.other = m, !.out2 = buildCanonicalQueryString(m)]
  /\ UNCHANGED <<now, subtle, opts, callerQueries, pc, loc, last, http, bus, ui>>

NextQS == BuildQS \/ BuildQSReordered

SpecQS == InitQS /\ [][NextQS]_vars

(***************************************************************************)
(* The merge of lines 313-367 for one field given in every combination of  *)
(* places                                                                  *)
(***************************************************************************)
MergeFields == {KAccessKeyId, KAccessKeySecret, KBucket, KRegion, KEndpoint}

FromBodyTop == Str(S(<<"b", "t">>))
FromQueryTop == Str(S(<<"q", "t">>))
FromBodyOptions == Str(S(<<"b", "o">>))
FromQueryOptions == Str(S(<<"q", "o">>))
FromEnv(i) == Str(S(<<"e", Digits[i + 1]>>))

\* what each place holds for the field: the top level of the body and of the
\* query string, the options object of the body, the options text of the query
\* string, and the environment names of the field
MergeSources ==
  [bodyTop : {Undef, Null, Str(<<>>), FromBodyTop},
   queryTop : {Undef, Str(<<>>), FromQueryTop},
   bodyOptions : {"none", "without", "with"},
   queryOptions : {"none", "with", "broken"},
   env : [1..3 -> {Undef, Null, Str(<<>>), Str(S(<<"e">>))}]]

\* the other fields of line 370, given at the top level of the query string
OtherRequired(f) ==
  LET Other(e) == e.k # f
  IN SelectSeq(<<[k |-> KAccessKeyId, v |-> AKID], [k |-> KAccessKeySecret, v |-> SECRET],
                 [k |-> KBucket, v |-> MyBucket]>>, Other)

MergeBody(f, s) ==
  IF s.bodyTop = Undef /\ s.bodyOptions = "none" THEN Null
  ELSE Obj((IF s.bodyOptions = "none" THEN <<>>
            ELSE <<[k |-> KOptions,
                    v |-> Obj(IF s.bodyOptions = "with" THEN <<[k |-> f, v |-> FromBodyOptions]>>
                              ELSE <<[k |-> KStsToken, v |-> Str(S(<<"t">>))]>>)]>>)
           \o (IF s.bodyTop = Undef THEN <<>> ELSE <<[k |-> f, v |-> s.bodyTop]>>))

MergeQuery(f, s) ==
  OtherRequired(f)
  \o (IF s.queryTop = Undef THEN <<>> ELSE <<[k |-> f, v |-> s.queryTop]>>)
  \o (IF s.queryOptions = "none" THEN <<>>
      ELSE <<[k |-> KOptions,
              v |-> Str(IF s.queryOptions = "with" THEN JsonStringify(<<[k |-> f, v |-> FromQueryOptions]>>)
                        ELSE S(<<"{", "o", "o", "p", "s">>))]>>)

MergeEnv(f, s) ==
  LET names == EnvNames(f)
      Set(i) == s.env[i] # Undef
      given == SelectSeq(Indices(names), Set)
  IN [j \in 1..Len(given) |->
        [k |-> names[given[j]],
         v |-> IF s.env[given[j]] = Str(S(<<"e">>)) THEN FromEnv(given[j]) ELSE s.env[given[j]]]]

InitMerge ==
  /\ now = 0
  /\ subtle = TRUE
  /\ opts = NoOpts
  /\ callerQueries = <<>>
  /\ pc = "idle"
  /\ loc = LocIdle
  /\ last = NoLast
  /\ http = HttpIdle
  /\ bus = BusIdle
  /\ ui = UiIdle
  /\ \E f \in MergeFields, s \in MergeSources :
       /\ \A i \in 1..3 : i > Len(EnvNames(f)) => s.env[i] = Undef
       /\ fx = [pc |-> "merge.input", field |-> f, sources |-> s, body |-> MergeBody(f, s),
                query |-> MergeQuery(f, s), env |-> MergeEnv(f, s), options |-> <<>>]

\* lines 313-367
MergeRequest ==
  /\ fx.pc = "merge.input"
  /\ fx' = [fx EXCEPT !.pc = "merge.done", !.options = MergedOptions(fx.body, fx.query, fx.env)]
  /\ UNCHANGED <<now, subtle, opts, callerQueries, pc, loc, last, http, bus, ui>>

\* lines 370-378: the 400 response, or the options object is passed to the signer
ValidateMerged ==
  /\ fx.pc = "merge.done"
  /\ fx' = [fx EXCEPT !.pc = IF MissingRequired(fx.options) THEN "merge.rejected" ELSE "merge.passed"]
  /\ UNCHANGED <<now, subtle, opts, callerQueries, pc, loc, last, http, bus, ui>>

NextMerge == MergeRequest \/ ValidateMerged

SpecMerge == InitMerge /\ [][NextMerge]_vars

(***************************************************************************)
(* Reading a composed URL back                                             *)
(***************************************************************************)
HexValue(u) == (CHOOSE i \in 1..16 : HexUpper[i] = u.c) - 1

\* decodeURIComponent of a percent-encoded string
PercentDecode(s) ==
  LET Escape(i) == i >= 1 /\ s[i] = [c |-> "%"] /\ i + 2 <= Len(s)
      Kept(i) == ~Escape(i - 1) /\ ~Escape(i - 2)
      kept == SelectSeq(Indices(s), Kept)
  IN [k \in 1..Len(kept) |->
        IF Escape(kept[k])
          THEN [c |-> Chr(16 * HexValue(s[kept[k] + 1]) + HexValue(s[kept[k] + 2]))]
          ELSE s[kept[k]]]

\* the query string of a URL: what follows the first "?"
UrlQuery(url) ==
  LET i == IndexOf(url, "?") IN IF i = 0 THEN <<>> ELSE SubSeq(url, i + 1, Len(url))

\* the decoded query parameters of a URL, in order
UrlParams(url) ==
  LET query == UrlQuery(url)
      items == IF Len(query) = 0 THEN <<>> ELSE Split(query, "&")
  IN [i \in 1..Len(items) |->
        LET j == IndexOf(items[i], "=")
        IN IF j = 0 THEN [k |-> PercentDecode(items[i]), v |-> <<>>]
           ELSE [k |-> PercentDecode(SubSeq(items[i], 1, j - 1)),
                 v |-> PercentDecode(SubSeq(items[i], j + 1, Len(items[i])))]]

ParamCount(url, name) ==
  LET params == UrlParams(url) IN Cardinality({i \in 1..Len(params) : params[i].k = name})

ParamValue(url, name) ==
  LET params == UrlParams(url) IN params[CHOOSE i \in 1..Len(params) : params[i].k = name].v

\* the host of an https URL
UrlHost(url) ==
  LET rest == SubSeq(url, Len(Https) + 1, Len(url))
      i == IndexOf(rest, "/")
      j == IndexOf(rest, "?")
      end == IF i = 0 /\ j = 0 THEN Len(rest) + 1
             ELSE IF i = 0 THEN j ELSE IF j = 0 THEN i ELSE IF i < j THEN i ELSE j
  IN SubSeq(rest, 1, end - 1)

\* the last n of the "/"-separated parts of s, joined again
LastParts(s, n) ==
  LET parts == Split(s, "/")
  IN Join(SubSeq(parts, Len(parts) - n + 1, Len(parts)), Slash)

Lines(s) == Split(s, "\n")

(***************************************************************************)
(* EventBus: on, off, emit, clear and clearEvent, called by outside code   *)
(* or by a callback that an emit in progress is running                    *)
(***************************************************************************)
\* lines 33-36: push on the event's array, created when missing
BusOnResult(listeners, event, callback) ==
  [listeners EXCEPT ![event] = [has |-> TRUE, list |-> Append(listeners[event].list, callback)]]

\* lines 45-46: nothing without an array, else a new array without callback
BusOffResult(listeners, event, callback) ==
  IF ~listeners[event].has THEN listeners
  ELSE [listeners EXCEPT ![event] =
          [has |-> TRUE, list |-> SelectSeq(listeners[event].list, LAMBDA cb : cb # callback)]]

\* the code that may call the bus now: outside code when no emit is in
\* progress, else the callback the innermost emit is running
BusCallable ==
  /\ bus.pc = "on"
  /\ IF bus.stack = <<>> THEN TRUE ELSE bus.stack[Len(bus.stack)].running # "none"

InitBus ==
  /\ now = 0
  /\ subtle = TRUE
  /\ opts = NoOpts
  /\ callerQueries = <<>>
  /\ pc = "idle"
  /\ loc = LocIdle
  /\ last = NoLast
  /\ fx = FxIdle
  /\ http = HttpIdle
  /\ ui = UiIdle
  /\ bus = [BusIdle EXCEPT !.pc = "on"]

\* on(event, callback)
BusOn ==
  /\ BusCallable
  /\ \E event \in Events, callback \in Callbacks :
       /\ Len(bus.listeners[event].list) < MaxListeners
       /\ bus' = [bus EXCEPT !.listeners = BusOnResult(bus.listeners, event, callback),
                             !.removed = bus.removed \ {<<event, callback>>}]
  /\ UNCHANGED <<now, subtle, opts, callerQueries, pc, loc, last, fx, http, ui>>

\* off(event, callback)
BusOff ==
  /\ BusCallable
  /\ \E event \in Events, callback \in Callbacks :
       bus' = [bus EXCEPT !.listeners = BusOffResult(bus.listeners, event, callback),
                          !.removed = bus.removed \cup {<<event, callback>>}]
  /\ UNCHANGED <<now, subtle, opts, callerQueries, pc, loc, last, fx, http, ui>>

\* emit(event, data), lines 55-56: returns at once without an array, else
\* forEach starts on the array that listeners[event] refers to now.  off never
\* changes that array (filter builds another) and on only appends to it, which
\* forEach does not visit: the elements forEach visits are those of now
BusEmit ==
  /\ BusCallable
  /\ Len(bus.stack) < MaxDepth
  /\ \E event \in Events :
       /\ bus.listeners[event].has
       /\ bus' = [bus EXCEPT !.stack = Append(bus.stack,
                    [event |-> event, arr |-> bus.listeners[event].list, i |-> 1,
                     running |-> "none", afterOff |-> FALSE])]
  /\ UNCHANGED <<now, subtle, opts, callerQueries, pc, loc, last, fx, http, ui>>

\* forEach calls the next callback of its array
BusInvoke ==
  /\ bus.pc = "on"
  /\ bus.stack # <<>>
  /\ LET n == Len(bus.stack)
         top == bus.stack[n]
     IN /\ top.running = "none"
        /\ top.i <= Len(top.arr)
        /\ bus' = [bus EXCEPT !.stack[n] =
                     [top EXCEPT !.running = top.arr[top.i], !.i = top.i + 1,
                                 !.afterOff = <<top.event, top.arr[top.i]>> \in bus.removed]]
  /\ UNCHANGED <<now, subtle, opts, callerQueries, pc, loc, last, fx, http, ui>>

\* the running callback returns
BusCallbackReturns ==
  /\ bus.pc = "on"
  /\ bus.stack # <<>>
  /\ LET n == Len(bus.stack)
     IN /\ bus.stack[n].running # "none"
        /\ bus' = [bus EXCEPT !.stack[n].running = "none", !.stack[n].afterOff = FALSE]
  /\ UNCHANGED <<now, subtle, opts, callerQueries, pc, loc, last, fx, http, ui>>

\* the running callback throws: forEach and emit pass the exception on to the
\* caller of emit, which goes on (having caught it) or throws in its turn
BusCallbackThrows ==
  /\ bus.pc = "on"
  /\ bus.stack # <<>>
  /\ bus.stack[Len(bus.stack)].running # "none"
  /\ bus' = [bus EXCEPT !.stack = SubSeq(bus.stack, 1, Len(bus.stack) - 1)]
  /\ UNCHANGED <<now, subtle, opts, callerQueries, pc, loc, last, fx, http, ui>>

\* forEach has visited its array: emit returns
BusEmitReturns ==
  /\ bus.pc = "on"
  /\ bus.stack # <<>>
  /\ LET top == bus.stack[Len(bus.stack)]
     IN top.running = "none" /\ top.i > Len(top.arr)
  /\ bus' = [bus EXCEPT !.stack = SubSeq(bus.stack, 1, Len(bus.stack) - 1)]
  /\ UNCHANGED <<now, subtle, opts, callerQueries, pc, loc, last, fx, http, ui>>

\* clear(), line 63
BusClear ==
  /\ BusCallable
  /\ bus.listeners # NoListeners
  /\ bus' = [bus EXCEPT !.listeners = NoListeners]
  /\ UNCHANGED <<now, subtle, opts, callerQueries, pc, loc, last, fx, http, ui>>

\* clearEvent(event), lines 71-73
BusClearEvent ==
  /\ BusCallable
  /\ \E event \in Events :
       /\ bus.listeners[event].has
       /\ bus' = [bus EXCEPT !.listeners[event] = [has |-> FALSE, list |-> <<>>]]
  /\ UNCHANGED <<now, subtle, opts, callerQueries, pc, loc, last, fx, http, ui>>

NextBus ==
  \/ BusOn \/ BusOff \/ BusEmit \/ BusInvoke \/ BusCallbackReturns \/ BusCallbackThrows
  \/ BusEmitReturns \/ BusClear \/ BusClearEvent

SpecBus == InitBus /\ [][NextBus]_vars

(***************************************************************************)
(* UIManager: the roster and the four events that change it                *)
(***************************************************************************)
UserA == Str(S(<<"A">>))
UserB == Str(S(<<"B">>))
UserC == Str(S(<<"C">>))

\* the user names an event may carry
Usernames == {UserA, UserB, UserC, Str(<<>>), Undef}

\* generateAvatar(username), lines 215-223: fnv1a throws a TypeError unless
\* username is a string, and username[0].toUpperCase() throws one for the
\* empty string.  avatar and color are functions of the name alone and are
\* left out of the entry
generateAvatarThrows(username) == username.t # "string" \/ username.s = <<>>

generateAvatar(username) == [name |-> username]

RosterHas(roster, username) == \E i \in 1..Len(roster) : roster[i].name = username

\* addUserToRoster, lines 675-682; an exception leaves the roster as it was
addUserToRoster(roster, username) ==
  IF RosterHas(roster, username) THEN roster
  ELSE IF generateAvatarThrows(username) THEN roster
  ELSE Append(roster, generateAvatar(username))

\* handleUserRename, lines 689-699
handleUserRename(roster, oldUsername, newUsername) ==
  IF ~Truthy(oldUsername) \/ ~Truthy(newUsername) THEN roster
  ELSE IF RosterHas(roster, oldUsername)
    THEN LET idx == CHOOSE i \in 1..Len(roster) :
                      /\ roster[i].name = oldUsername
                      /\ \A j \in 1..(i - 1) : roster[j].name # oldUsername
         IN IF generateAvatarThrows(newUsername) THEN roster
            ELSE [roster EXCEPT ![idx] = generateAvatar(newUsername)]
    ELSE addUserToRoster(roster, newUsername)

\* removeUserFromRoster, lines 705-713
removeUserFromRoster(roster, username) == SelectSeq(roster, LAMBDA user : user.name # username)

\* a UIManager after its constructor (lines 69-74): empty roster; event is the
\* event its listeners handled last
InitRoster ==
  /\ now = 0
  /\ subtle = TRUE
  /\ opts = NoOpts
  /\ callerQueries = <<>>
  /\ pc = "idle"
  /\ loc = LocIdle
  /\ last = NoLast
  /\ fx = FxIdle
  /\ http = HttpIdle
  /\ bus = BusIdle
  /\ ui = [pc |-> "roster", roster |-> <<>>, event |-> [type |-> "none"]]

\* the listener of user:joined, line 109
UserJoined ==
  /\ ui.pc = "roster"
  /\ Len(ui.roster) < MaxRoster
  /\ \E username \in Usernames :
       ui' = [ui EXCEPT !.roster = addUserToRoster(ui.roster, username),
                        !.event = [type |-> "user:joined", username |-> username]]
  /\ UNCHANGED <<now, subtle, opts, callerQueries, pc, loc, last, fx, http, bus>>

\* the listener of user:quit, line 110
UserQuit ==
  /\ ui.pc = "roster"
  /\ \E username \in Usernames :
       ui' = [ui EXCEPT !.roster = removeUserFromRoster(ui.roster, username),
                        !.event = [type |-> "user:quit", username |-> username]]
  /\ UNCHANGED <<now, subtle, opts, callerQueries, pc, loc, last, fx, http, bus>>

\* the listener of user:rename, line 111
UserRename ==
  /\ ui.pc = "roster"
  /\ Len(ui.roster) < MaxRoster
  /\ \E oldUsername \in Usernames, newUsername \in Usernames :
       ui' = [ui EXCEPT !.roster = handleUserRename(ui.roster, oldUsername, newUsername),
                        !.event = [type |-> "user:rename", oldUsername |-> oldUsername,
                                   newUsername |-> newUsername]]
  /\ UNCHANGED <<now, subtle, opts, callerQueries, pc, loc, last, fx, http, bus>>

\* the listener of roster:clear, line 112, and clearRoster
RosterClear ==
  /\ ui.pc = "roster"
  /\ ui' = [ui EXCEPT !.roster = <<>>, !.event = [type |-> "roster:clear"]]
  /\ UNCHANGED <<now, subtle, opts, callerQueries, pc, loc, last, fx, http, bus>>

NextRoster == UserJoined \/ UserQuit \/ UserRename \/ RosterClear

SpecRoster == InitRoster /\ [][NextRoster]_vars

(***************************************************************************)
(* UIManager: the message list, addChatMessage and the room's messages in  *)
(* localStorage.  this.storage is null (StorageManager is not part of the  *)
(* sources): storage goes through the helpers of lines 189-202             *)
(***************************************************************************)
SystemUser == Str(S(<<"u7cfb", "u7edf">>))
UserK == Str(S(<<"K">>))
TextHi == Str(S(<<"h", "i">>))
TextOld == Str(S(<<"o", "l", "d">>))
RoomNight == Str(S(<<"n", "2", "5">>))
DefaultRoom == S(<<"n", "i", "g", "h", "t", "c", "o", "r", "d", "-", "d", "e", "f", "a", "u", "l", "t">>)

\* line 657: the longest message list that is saved
MaxStoredMessages == 2000

\* lines 189-190
storageKeyMessages(room) == S(<<"n", "i", "g", "h", "t", "c", "o", "r", "d", "-", "m", "e", "s", "s", "a", "g", "e", "s", ":">>) \o room

storageKeyLastMsg(room) == S(<<"n", "i", "g", "h", "t", "c", "o", "r", "d", "-", "l", "a", "s", "t", "m", "s", "g", ":">>) \o room

\* this.currentRoom || 'nightcord-default'
RoomOf(currentRoom) == IF Truthy(currentRoom) THEN JsString(currentRoom) ELSE DefaultRoom

\* what JSON.parse(JSON.stringify(msgs)) gives for a list of flat objects: a
\* string, a finite number and null come back as they were, a property whose
\* value is undefined is left out and reads as undefined
JsonCopy(msgs) ==
  [i \in 1..Len(msgs) |->
     [f \in DOMAIN msgs[i] |->
        IF msgs[i][f].t \in {"string", "number", "null"} THEN msgs[i][f] ELSE Undef]]

\* Number(text) of a string of decimal digits
RECURSIVE NumberOf(_)
NumberOf(s) ==
  IF Len(s) = 0 THEN 0
  ELSE 10 * NumberOf(SubSeq(s, 1, Len(s) - 1))
       + (CHOOSE d \in 0..9 : Digits[d + 1] = s[Len(s)].c)

\* loadLocalMessages, lines 191-193: the parsed list, [] when there is no item
loadLocalMessages(localStorage, room) ==
  LET item == Get(localStorage, storageKeyMessages(room))
  IN IF item = Undef THEN <<>> ELSE item.list

\* saveLocalMessages, lines 194-196
saveLocalMessages(localStorage, room, msgs) ==
  Put(localStorage, storageKeyMessages(room), [t |-> "json", list |-> JsonCopy(msgs)])

\* getLastMsgTimestamp, lines 197-199
getLastMsgTimestamp(localStorage, room) ==
  LET item == Get(localStorage, storageKeyLastMsg(room))
  IN IF Truthy(item) THEN Num(NumberOf(item.s)) ELSE Num(0)

\* setLastMsgTimestamp, lines 200-202
setLastMsgTimestamp(localStorage, room, ts) ==
  Put(localStorage, storageKeyLastMsg(room), Str(JsString(ts)))

\* an entry of this.messages (lines 132-139, 171-178, 644-651): avatar, color
\* and time are texts made for display from the user and the timestamp
DisplayEntry(user, text, timestamp, time) ==
  [user |-> user, avatar |-> Str(<<[avatarOf |-> user]>>), color |-> Str(<<[colorOf |-> user]>>),
   time |-> time, text |-> text, timestamp |-> timestamp]

\* timestamp ? this.formatDate(timestamp) : new Date().toLocaleTimeString()
DisplayTime(timestamp, clock) ==
  IF Truthy(timestamp) THEN Str(<<[formatDate |-> timestamp]>>)
  ELSE Str(<<[toLocaleTimeString |-> clock]>>)

\* the list kept whole whatever its length
CapMessages_keepsAll(localMsgs) == localMsgs

\* line 657
CapMessages(localMsgs) ==
  IF Len(localMsgs) > MaxStoredMessages
    THEN SubSeq(localMsgs, Len(localMsgs) - MaxStoredMessages + 1, Len(localMsgs))
    ELSE localMsgs

\* the outcome of addChatMessage(user, message, timestamp), lines 623-663, for
\* a UIManager u at clock time clock; generateAvatar throws before anything is
\* changed
addChatMessage(u, user, message, timestamp, clock) ==
  LET stamp == IF Truthy(timestamp) THEN timestamp ELSE Num(clock)
      entry == DisplayEntry(user, message, stamp, DisplayTime(timestamp, clock))
      msgObj == [user |-> user, text |-> message, timestamp |-> stamp]
      room == RoomOf(u.currentRoom)
      localMsgs == CapMessages(Append(loadLocalMessages(u.localStorage, room), msgObj))
      saved == saveLocalMessages(u.localStorage, room, localMsgs)
  IN IF generateAvatarThrows(user) THEN [u EXCEPT !.outcome = "threw"]
     ELSE IF user = SystemUser
       THEN [u EXCEPT !.messages = Append(u.messages, entry), !.outcome = "shown"]
     ELSE [u EXCEPT !.messages = Append(u.messages, entry),
                    !.localStorage = setLastMsgTimestamp(saved, room, stamp),
                    !.writes = u.writes + 2,
                    !.lastMsgTimestamp = stamp,
                    !.outcome = "saved"]

\* the test of lines 100-102 comparing the user with the message text
MessageExists_wrongField(messages, data) ==
  \E i \in 1..Len(messages) :
    /\ messages[i].text = data.message
    /\ messages[i].user = data.message
    /\ messages[i].timestamp = data.timestamp

\* the test of lines 100-102
MessageExists(messages, data) ==
  \E i \in 1..Len(messages) :
    /\ messages[i].text = data.message
    /\ messages[i].user = data.name
    /\ messages[i].timestamp = data.timestamp

\* the listener of message:received, lines 96-106
onMessageReceived(u, data, clock) ==
  IF data.name = SystemUser THEN [u EXCEPT !.outcome = "system"]
  ELSE IF MessageExists(u.messages, data) THEN [u EXCEPT !.outcome = "exists"]
  ELSE addChatMessage(u, data.name, data.message, data.timestamp, clock)

\* setCurrentRoom, lines 162-186 (the stored entries have users that
\* generateAvatar accepts)
setCurrentRoom(u, roomname) ==
  LET room == RoomOf(roomname)
      local == loadLocalMessages(u.localStorage, room)
  IN [u EXCEPT !.currentRoom = roomname,
               !.messages = [i \in 1..Len(local) |->
                               DisplayEntry(local[i].user, local[i].text, local[i].timestamp,
                                            IF Truthy(local[i].timestamp)
                                              THEN Str(<<[formatDate |-> local[i].timestamp]>>)
                                              ELSE Str(<<>>))],
               !.lastMsgTimestamp = getLastMsgTimestamp(u.localStorage, room),
               !.outcome = "loaded"]

\* the messages an earlier session left in localStorage for the default room:
\* one fewer than the longest list that is saved
EarlierMessages ==
  [i \in 1..(MaxStoredMessages - 1) |-> [user |-> UserK, text |-> TextOld, timestamp |-> Num(i)]]

EarlierStorage ==
  setLastMsgTimestamp(saveLocalMessages(<<>>, DefaultRoom, EarlierMessages),
                      DefaultRoom, Num(MaxStoredMessages - 1))

ChatUsers == {UserK, SystemUser, Str(<<>>)}
ChatTimestamps == {Num(0), Num(1), Num(2)}

\* a UIManager after its constructor (lines 69-74), localStorage empty or as an
\* earlier session left it; event is the call or event handled last
InitChat ==
  /\ now = 9
  /\ subtle = TRUE
  /\ opts = NoOpts
  /\ callerQueries = <<>>
  /\ pc = "idle"
  /\ loc = LocIdle
  /\ last = NoLast
  /\ fx = FxIdle
  /\ http = HttpIdle
  /\ bus = BusIdle
  /\ \E stored \in {<<>>, EarlierStorage} :
       ui = [pc |-> "chat", currentRoom |-> Null, messages |-> <<>>, lastMsgTimestamp |-> Num(0),
             localStorage |-> stored, writes |-> 0, count |-> 0, outcome |-> "none",
             event |-> [type |-> "none"]]

\* the bus delivers message:received to the listener of lines 96-106
MessageReceived ==
  /\ ui.pc = "chat"
  /\ ui.count < MaxEvents
  /\ \E name \in ChatUsers, timestamp \in ChatTimestamps :
       LET data == [name |-> name, message |-> TextHi, timestamp |-> timestamp]
       IN ui' = [onMessageReceived(ui, data, now) EXCEPT
                   !.count = ui.count + 1,
                   !.event = [type |-> "message:received", data |-> data]]
  /\ UNCHANGED <<now, subtle, opts, callerQueries, pc, loc, last, fx, http, bus>>

\* a call of addChatMessage(user, message, timestamp) from elsewhere
AddChatMessage ==
  /\ ui.pc = "chat"
  /\ ui.count < MaxEvents
  /\ \E user \in {UserK, SystemUser}, timestamp \in {Undef, Num(1)} :
       ui' = [addChatMessage(ui, user, TextHi, timestamp, now) EXCEPT
                !.count = ui.count + 1,
                !.event = [type |-> "addChatMessage", user |-> user, timestamp |-> timestamp]]
  /\ UNCHANGED <<now, subtle, opts, callerQueries, pc, loc, last, fx, http, bus>>

\* a call of setCurrentRoom(roomname)
SetCurrentRoom ==
  /\ ui.pc = "chat"
  /\ ui.count < MaxEvents
  /\ \E roomname \in {RoomNight, Null} :
       ui' = [setCurrentRoom(ui, roomname) EXCEPT
                !.count = ui.count + 1,
                !.event = [type |-> "setCurrentRoom", roomname |-> roomname]]
  /\ UNCHANGED <<now, subtle, opts, callerQueries, pc, loc, last, fx, http, bus>>

NextChat == MessageReceived \/ AddChatMessage \/ SetCurrentRoom

SpecChat == InitChat /\ [][NextChat]_vars

(***************************************************************************)
(* UIManager.formatDate.  An instant is a whole number of hours since      *)
(* 1970-01-01T00:00Z (a timestamp is that many times 3,600,000 ms).  A     *)
(* time zone has a UTC offset that may change once, at shiftAt (daylight   *)
(* saving time beginning or ending).  toLocaleTimeString is HH:MM:SS, as   *)
(* in the examples of lines 769-786.  A character outside ASCII is named  *)
(* by its code point: "u6628" is U+6628                                    *)
(***************************************************************************)
Zone(base, shiftAt, shifted) == [base |-> base, shiftAt |-> shiftAt, shifted |-> shifted]

\* UTC+8 and UTC-8 without daylight saving time; UTC-8 turning UTC-7 and
\* UTC-7 turning UTC-8 at 10:00Z of the second day
Zones == {Zone(8, 0, 8), Zone(0 - 8, 0, 0 - 8), Zone(0 - 8, 34, 0 - 7), Zone(0 - 7, 33, 0 - 8)}

UtcOffset(zone, t) == IF t >= zone.shiftAt THEN zone.shifted ELSE zone.base

\* the local wall-clock hour count, day number, and the Date getters
LocalHours(zone, t) == t + UtcOffset(zone, t)
LocalDay(zone, t) == LocalHours(zone, t) \div 24
getHours(zone, t) == LocalHours(zone, t) % 24
getDay(zone, t) == (LocalDay(zone, t) + 4) % 7
getMonth(zone, t) == IF LocalDay(zone, t) < 0 THEN 11 ELSE 0
getDate(zone, t) == IF LocalDay(zone, t) < 0 THEN 32 + LocalDay(zone, t) ELSE LocalDay(zone, t) + 1

\* new Date(y, m, d) of the local day of t: the instant of its local midnight
StartOfDay(zone, t) ==
  CHOOSE m \in (t - 26)..t : LocalDay(zone, m) = LocalDay(zone, t) /\ getHours(zone, m) = 0

\* date.toLocaleTimeString()
toLocaleTimeString(zone, t) == pad(getHours(zone, t)) \o S(<<":", "0", "0", ":", "0", "0">>)

IsDigit(u) == \E d \in 1..10 : u = [c |-> Digits[d]]

\* the first match of /(\d{1,2}):(\d{2}):(\d{2})/ in s: where it starts and
\* how many digits p1 has (two when possible), 0 without a match
TimeMatchAt(s, i, n) ==
  /\ i + n + 5 <= Len(s)
  /\ \A k \in 0..(n - 1) : IsDigit(s[i + k])
  /\ s[i + n] = [c |-> ":"]
  /\ IsDigit(s[i + n + 1]) /\ IsDigit(s[i + n + 2])
  /\ s[i + n + 3] = [c |-> ":"]
  /\ IsDigit(s[i + n + 4]) /\ IsDigit(s[i + n + 5])

FirstTimeMatch(s) ==
  LET starts == {i \in 1..Len(s) : TimeMatchAt(s, i, 2) \/ TimeMatchAt(s, i, 1)}
  IN IF starts = {} THEN [at |-> 0, digits |-> 0]
     ELSE LET i == CHOOSE k \in starts : \A j \in starts : k <= j
          IN [at |-> i, digits |-> IF TimeMatchAt(s, i, 2) THEN 2 ELSE 1]

\* lines 803-805: the first time of day in s with 12 added to its hour
AddTwelve(s) ==
  LET m == FirstTimeMatch(s)
  IN IF m.at = 0 THEN s
     ELSE SubSeq(s, 1, m.at - 1)
          \o NumToStr(NumberOf(SubSeq(s, m.at, m.at + m.digits - 1)) + 12)
          \o SubSeq(s, m.at + m.digits, Len(s))

Weekdays == <<"u65e5", "u4e00", "u4e8c", "u4e09", "u56db", "u4e94", "u516d">>

\* lines 793-795 and 811-817: the day label put before timeString
WithDayLabel(zone, t, clock, timeString) ==
  LET diffDays == (StartOfDay(zone, clock) - StartOfDay(zone, t)) \div 24
  IN IF diffDays = 0 THEN timeString
     ELSE IF diffDays = 1 THEN S(<<"u6628", "u5929", " ">>) \o timeString
     ELSE IF diffDays > 1 /\ diffDays < 7
       THEN S(<<"u5468", Weekdays[getDay(zone, t) + 1], " ">>) \o timeString
     ELSE NumToStr(getMonth(zone, t) + 1) \o S(<<"u6708">>) \o NumToStr(getDate(zone, t))
          \o S(<<"u65e5", " ">>) \o timeString

\* the instants formatDate is called with
DateInputs == 0..MaxInstant

\* a UIManager about to format input at clock time clock; calls holds the
\* formatDate calls in progress, innermost last, and returned what the call
\* that ended last returned
InitDate ==
  /\ now = 0
  /\ subtle = TRUE
  /\ opts = NoOpts
  /\ callerQueries = <<>>
  /\ pc = "idle"
  /\ loc = LocIdle
  /\ last = NoLast
  /\ fx = FxIdle
  /\ http = HttpIdle
  /\ bus = BusIdle
  /\ \E zone \in Zones, input \in DateInputs, clock \in {MaxInstant, MaxInstant + 240} :
       ui = [pc |-> "date", zone |-> zone, clock |-> clock, input |-> input, calls |-> <<>>,
             returned |-> [some |-> FALSE], result |-> [some |-> FALSE]]

\* what the call on top of calls returns goes to its caller, or is the result
DateReturn(u, text) ==
  LET rest == SubSeq(u.calls, 1, Len(u.calls) - 1)
  IN IF rest = <<>>
       THEN [u EXCEPT !.calls = rest, !.returned = [some |-> FALSE],
                      !.result = [some |-> TRUE, text |-> text]]
       ELSE [u EXCEPT !.calls = rest, !.returned = [some |-> TRUE, text |-> text]]

\* this.formatDate(timestamp) is called from outside
FormatDateCalled ==
  /\ ui.pc = "date"
  /\ ui.calls = <<>>
  /\ ~ui.result.some
  /\ ui' = [ui EXCEPT !.calls = <<[timestamp |-> ui.input, pc |-> "entered"]>>]
  /\ UNCHANGED <<now, subtle, opts, callerQueries, pc, loc, last, fx, http, bus>>

\* lines 788-802: '' for a falsy timestamp; before 06:00 the call of line 803
\* on the instant 12 hours earlier; else lines 808-817
FormatDateRuns ==
  /\ ui.pc = "date"
  /\ ui.calls # <<>>
  /\ LET n == Len(ui.calls)
         t == ui.calls[n].timestamp
     IN /\ ui.calls[n].pc = "entered"
        /\ IF t = 0 THEN ui' = DateReturn(ui, <<>>)
           ELSE IF getHours(ui.zone, t) < 6
             THEN /\ n < MaxCalls
                  /\ ui' = [ui EXCEPT !.calls = Append([ui.calls EXCEPT ![n].pc = "recursing"],
                                                       [timestamp |-> t - 12, pc |-> "entered"])]
           ELSE ui' = DateReturn(ui, WithDayLabel(ui.zone, t, ui.clock,
                                                  toLocaleTimeString(ui.zone, t)))
  /\ UNCHANGED <<now, subtle, opts, callerQueries, pc, loc, last, fx, http, bus>>

\* lines 803-817 after the inner call has returned
FormatDateResumes ==
  /\ ui.pc = "date"
  /\ ui.calls # <<>>
  /\ ui.returned.some
  /\ LET n == Len(ui.calls)
         t == ui.calls[n].timestamp
         adjustedTimeString == S(<<"uff08">>) \o AddTwelve(ui.returned.text) \o S(<<"uff09">>)
     IN /\ ui.calls[n].pc = "recursing"
        /\ ui' = DateReturn(ui, WithDayLabel(ui.zone, t, ui.clock,
                                             toLocaleTimeString(ui.zone, t) \o adjustedTimeString))
  /\ UNCHANGED <<now, subtle, opts, callerQueries, pc, loc, last, fx, http, bus>>

NextDate == FormatDateCalled \/ FormatDateRuns \/ FormatDateResumes

SpecDate == InitDate /\ [][NextDate]_vars

(***************************************************************************)
(* The URL path and the canonical URI of every short object key            *)
(***************************************************************************)
KeyChars == {"a", "/", " ", "!", "%", "2", "F"}

ObjectKeyInputs == UNION {[1..n -> {[c |-> ch] : ch \in KeyChars}] : n \in 0..MaxKeyLen}

PathBucket == Str(S(<<"m", "y", "-", "b", "u", "c", "k", "e", "t">>))

PathIdle(key) ==
  [pc |-> "path.key", key |-> key, path |-> <<>>, canonicalURI |-> <<>>,
   decoded |-> <<>>, reencoded |-> <<>>]

InitPath ==
  /\ now = 0
  /\ subtle = TRUE
  /\ opts = NoOpts
  /\ callerQueries = <<>>
  /\ pc = "idle"
  /\ loc = LocIdle
  /\ last = NoLast
  /\ http = HttpIdle
  /\ bus = BusIdle
  /\ ui = UiIdle
  /\ \E key \in ObjectKeyInputs : fx = PathIdle(key)

\* lines 201-202 and 291 for the object key, in bucket PathBucket
ComposePath ==
  /\ fx.pc = "path.key"
  /\ fx' = [fx EXCEPT !.pc = "path.composed",
                      !.path = ObjectPath(Str(fx.key)),
                      !.canonicalURI =
                        getCanonicalRequest(GET, <<>>, <<>>, PathBucket, Str(fx.key), <<>>).encodedURI]
  /\ UNCHANGED <<now, subtle, opts, callerQueries, pc, loc, last, http, bus, ui>>

\* the composed path percent-decoded, then encoded again by the rule of line 291
DecodeEncodePath ==
  /\ fx.pc = "path.composed"
  /\ LET decoded == PercentDecode(fx.path)
     IN fx' = [fx EXCEPT !.pc = "path.again", !.decoded = decoded, !.reencoded = PathEncode(decoded)]
  /\ UNCHANGED <<now, subtle, opts, callerQueries, pc, loc, last, http, bus, ui>>

NextPath == ComposePath \/ DecodeEncodePath

SpecPath == InitPath /\ [][NextPath]_vars

(***************************************************************************)
(* Claims                                                                  *)
(***************************************************************************)
ConfigurationErrors ==
  {"bucketName required when objectName provided", "bucket and region or endpoint required"}

\* C1: for every successful call, the date/region/product/suffix scope inside the
\* x-oss-credential value of the URL equals the scope line of the string-to-sign,
\* and the date and region fed to the key-derivation chain are the date and the
\* region of that scope.
C1_ScopeConsistent ==
  pc = "returned" =>
    LET credScope == LastParts(ParamValue(loc.url, XOssCredential), 4)
        stsScope == Lines(loc.stringToSign)[3]
        parts == Split(stsScope, "/")
    IN /\ credScope = stsScope
       /\ loc.kdf[1].data = parts[1]
       /\ loc.kdf[2].data = parts[2]

\* C2 as stated: with no endpoint override the host of the returned URL is
\* bucket.(region with the leading "oss-" stripped).aliyuncs.com.
C2_HostStripsPrefix ==
  (pc = "returned" /\ ~Truthy(opts.endpoint)) =>
    UrlHost(loc.url) = JsString(opts.bucket) \o Dot \o JsString(getSignRegion(opts.region))
                       \o Dot \o Aliyuncs

\* C2 amended: with no endpoint override the host of the returned URL is
\* bucket.region.aliyuncs.com with the region exactly as supplied, its "oss-"
\* prefix kept.
C2_HostKeepsRegion ==
  (pc = "returned" /\ ~Truthy(opts.endpoint)) =>
    UrlHost(loc.url) = JsString(opts.bucket) \o Dot \o JsString(opts.region) \o Dot \o Aliyuncs

C2_Witness ==
  /\ pc = "returned"
  /\ ~Truthy(opts.endpoint)
  /\ StartsWith(JsString(opts.region), OssPrefix)
  /\ getSignRegion(opts.region) # opts.region

\* C3: signatureUrlV4 returns no URL when accessKeyId, accessKeySecret or bucket
\* is missing from its input.
C3_MissingFieldFails ==
  pc = "returned" =>
    Truthy(opts.accessKeyId) /\ Truthy(opts.accessKeySecret) /\ Truthy(opts.bucket)

\* C4: every configuration error raised by signatureUrlV4 is raised before the
\* first call of the SHA-256 or HMAC primitive in that call.
C4_ConfigErrorBeforeCrypto ==
  (pc = "thrown" /\ loc.error \in ConfigurationErrors) => loc.cryptoCalls = <<>>

\* C5: an object key without a bucket name makes the call fail, whatever the other
\* inputs are: no URL is produced, and nothing has been percent-encoded when the
\* error is raised.
C5_ObjectWithoutBucketFails ==
  (pc # "idle" /\ Truthy(opts.object) /\ ~Truthy(opts.bucket)) =>
    /\ pc = "thrown"
    /\ loc.error = "bucketName required when objectName provided"
    /\ loc.url = <<>>
    /\ loc.encodeCalls = 0

C5_Witness ==
  /\ pc = "thrown"
  /\ Truthy(opts.object)
  /\ ~Truthy(opts.bucket)
  /\ Truthy(opts.endpoint)
  /\ loc.encodeCalls = 0

\* C6: fixAdditionalHeaders returns the sorted, duplicate-free list of the
\* lowercased input names that are neither content-type nor content-md5 and do not
\* start with x-oss-; ["Content-Type", "X-Oss-Foo", "X-Custom-1"] gives
\* ["x-custom-1"]; normalizing twice gives the same list as normalizing once.
C6_FixAdditionalHeaders ==
  /\ fx.pc \in {"once", "twice"} =>
       /\ \A i \in 1..(Len(fx.once) - 1) : LexLess(fx.once[i], fx.once[i + 1])
       /\ Range(fx.once) =
            {name \in {toLowerCase(fx.input[i]) : i \in 1..Len(fx.input)} :
               /\ name # ContentType
               /\ name # ContentMd5
               /\ ~StartsWith(name, XOssPrefix)}
       /\ (fx.input = <<HContentType, HXOssFoo, HXCustom1>> => fx.once = <<HXCustom1Lower>>)
  /\ fx.pc = "twice" => fx.twice = fx.once

C6_Witness ==
  /\ fx.pc = "twice"
  /\ fx.input = <<HXCustom1, HContentType, S(<<"b">>)>>
  /\ fx.twice = <<S(<<"b">>), HXCustom1Lower>>

\* two opts that differ only in the letter case of the header-map keys
DifferOnlyInHeaderCase(a, b) ==
  /\ [a EXCEPT !.headers = Undef] = [b EXCEPT !.headers = Undef]
  /\ a.headers # Undef
  /\ b.headers # Undef
  /\ Len(a.headers.o) = Len(b.headers.o)
  /\ \A i \in 1..Len(a.headers.o) :
       /\ a.headers.o[i].v = b.headers.o[i].v
       /\ toLowerCase(a.headers.o[i].k) = toLowerCase(b.headers.o[i].k)

\* C7: two signing calls at the same instant whose inputs differ only in the
\* letter case of the header-map keys produce the same canonical header block and
\* the same signature.
C7_HeaderCaseInsensitive ==
  (pc = "returned" /\ last.some /\ last.date = loc.date /\ DifferOnlyInHeaderCase(last.opts, opts)) =>
    /\ loc.canonicalHeaders = last.canonicalHeaders
    /\ loc.signature = last.signature

C7_Witness ==
  /\ pc = "returned"
  /\ last.some
  /\ last.date = loc.date
  /\ DifferOnlyInHeaderCase(last.opts, opts)
  /\ last.opts.headers # opts.headers
  /\ Len(loc.canonicalHeaders) > 0

\* C8: two calls with the same opts object at the same wall-clock instant return
\* the same URL.
C8_Deterministic ==
  (pc = "returned" /\ last.some /\ last.opts = opts /\ last.date = loc.date) => loc.url = last.url

C8_Witness ==
  /\ pc = "returned"
  /\ last.some
  /\ last.opts = opts
  /\ last.date = loc.date
  /\ opts.queries # Undef
  /\ Len(loc.url) > 0

\* C9: within one call the clock is read once, and x-oss-date, the date in
\* x-oss-credential, the time and the scope date of the string-to-sign and the date
\* fed to key derivation all come from that one instant, however far the clock
\* advances while the call is suspended.
C9_SingleClockRead ==
  /\ pc # "idle" => loc.clockReads = 1
  /\ pc = "returned" =>
       LET stamps == formatDateUTC(loc.date)
           credParts == Split(ParamValue(loc.url, XOssCredential), "/")
           sts == Lines(loc.stringToSign)
       IN /\ ParamValue(loc.url, XOssDate) = stamps.timeStamp
          /\ credParts[Len(credParts) - 3] = stamps.dateStamp
          /\ sts[2] = stamps.timeStamp
          /\ Split(sts[3], "/")[1] = stamps.dateStamp
          /\ loc.kdf[1].data = stamps.dateStamp

C9_Witness ==
  /\ pc = "returned"
  /\ loc.returnedAt # loc.date
  /\ formatDateUTC(loc.returnedAt).dateStamp # formatDateUTC(loc.date).dateStamp
  /\ loc.kdf[1].data = formatDateUTC(loc.date).dateStamp

\* C10: every returned URL carries exactly one each of x-oss-credential,
\* x-oss-date, x-oss-expires (the requested expiry, 60 by default),
\* x-oss-signature-version (OSS4-HMAC-SHA256) and x-oss-signature;
\* x-oss-additional-headers is present exactly when the normalized additional-header
\* list is non-empty, x-oss-security-token exactly when a security token was
\* supplied.
C10_SigningParameters ==
  pc = "returned" =>
    /\ \A name \in {XOssCredential, XOssDate, XOssExpires, XOssSignatureVersion, XOssSignature} :
         ParamCount(loc.url, name) = 1
    /\ ParamValue(loc.url, XOssExpires) = JsString(Default(opts.expires, Num(60)))
    /\ ParamValue(loc.url, XOssSignatureVersion) = Algorithm
    /\ ParamCount(loc.url, XOssAdditionalHeaders) = (IF Len(loc.fixedAdditional) > 0 THEN 1 ELSE 0)
    /\ ParamCount(loc.url, XOssSecurityToken) = (IF Truthy(opts.securityToken) THEN 1 ELSE 0)

\* the subtle calls of one complete signing call, in order: one digest, then an
\* importKey and a sign for each of the five HMAC steps
ExpectedSubtleCalls ==
  <<"digest", "importKey", "sign", "importKey", "sign", "importKey", "sign",
    "importKey", "sign", "importKey", "sign">>

IsPrefix(a, b) == Len(a) <= Len(b) /\ SubSeq(b, 1, Len(a)) = a

C11_Outcome ==
  /\ pc = "returned" =>
       /\ loc.error = ""
       /\ Len(loc.url) > 0
       /\ loc.subtleCalls = ExpectedSubtleCalls
       /\ Len(loc.signature) > 0
       /\ ParamCount(loc.url, XOssSignature) = 1
       /\ ParamValue(loc.url, XOssSignature) = loc.signature
  /\ pc = "thrown" => (loc.url = <<>> /\ loc.error # "")
  /\ pc # "idle" => IsPrefix(loc.subtleCalls, ExpectedSubtleCalls)
  /\ (pc # "idle" /\ ~subtle) => (pc = "thrown" /\ loc.subtleCalls = <<>>)

C11_Step ==
  /\ (pc \in {"digest", "importKey", "sign"} /\ pc' = "thrown") =>
       (loc'.subtleCalls = loc.subtleCalls /\ loc'.url = <<>>)
  /\ pc = "thrown" => (pc' = "idle" \/ (pc' = "thrown" /\ loc' = loc))

\* C11: a call to signatureUrlV4 ends either returned, with a URL that carries
\* the finished x-oss-signature once, or thrown, with no URL.  With no crypto
\* provider the call throws without any primitive call; when a digest, importKey
\* or sign call rejects the call throws at once: the calls made are a prefix of
\* the one fixed chain (nothing is retried, nothing substituted) and no call is
\* made after the failure.
C11_FailsFast == [](C11_Outcome) /\ [][C11_Step]_vars

C11_Witness ==
  /\ pc = "thrown"
  /\ loc.error = "primitive failed"
  /\ loc.subtleCalls = SubSeq(ExpectedSubtleCalls, 1, 5)
  /\ loc.url = <<>>

\* the input of the i-th HMAC step: date stamp, normalized region (no bytes when
\* no region is given), product, request constant, string-to-sign
ChainInput(i) ==
  CASE i = 1 -> formatDateUTC(loc.date).dateStamp
    [] i = 2 -> IF Truthy(opts.region) THEN JsString(getSignRegion(opts.region)) ELSE <<>>
    [] i = 3 -> S(<<"o", "s", "s">>)
    [] i = 4 -> S(<<"a", "l", "i", "y", "u", "n", "_", "v", "4", "_", "r", "e", "q", "u", "e", "s", "t">>)
    [] OTHER -> loc.stringToSign

\* C12: the signature comes from five HMAC-SHA256 calls made one after the other:
\* the first keyed by "aliyun_v4" + secret over the date stamp, then over the
\* normalized region, the product "oss", "aliyun_v4_request" and the
\* string-to-sign, each keyed by the raw output block of the call before it; the
\* string-to-sign of the fifth call already holds the finished hash of the
\* canonical request, and the signature is the hex of the fifth output.
C12_KeyChain ==
  pc \in {"digest", "importKey", "sign", "returned"} =>
    /\ Len(loc.kdf) <= 5
    /\ \A i \in 1..Len(loc.kdf) :
         /\ loc.kdf[i].data = ChainInput(i)
         /\ loc.kdf[i].key =
              IF i = 1 THEN S(<<"a", "l", "i", "y", "u", "n", "_", "v", "4">>) \o JsString(opts.accessKeySecret)
              ELSE << [hmac |-> [key |-> loc.kdf[i - 1].key, data |-> loc.kdf[i - 1].data]] >>
    /\ Len(loc.kdf) = (IF pc = "sign" THEN loc.hmacIdx ELSE IF pc = "returned" THEN 5
                       ELSE IF loc.hmacIdx = 0 THEN 0 ELSE loc.hmacIdx - 1)
    /\ Len(loc.kdf) = 5 =>
         Lines(loc.stringToSign)[4] = << [hex |-> [sha256 |-> loc.canonicalRequest]] >>
    /\ pc = "returned" =>
         loc.signature = << [hex |-> [hmac |-> [key |-> loc.kdf[5].key, data |-> loc.kdf[5].data]]] >>

C12_Witness ==
  /\ pc = "returned"
  /\ Len(loc.kdf) = 5
  /\ Truthy(opts.region)
  /\ Truthy(opts.accessKeySecret)
  /\ loc.kdf[2].data = S(<<"c", "n", "-", "h", "a", "n", "g", "z", "h", "o", "u">>)

\* the place of key k among the keys of map m in ascending code-unit order
RawRank(m, k) == 1 + Cardinality({j \in 1..Len(m) : LexLess(m[j].k, k)})

QueryElement(e) ==
  IF e.v = Null \/ e.v = Undef THEN encodeString(Str(e.k))
  ELSE encodeString(Str(e.k)) \o S(<<"=">>) \o encodeString(e.v)

\* C13: the canonical query string has one "&"-separated element per key of the
\* map, in ascending order of the raw keys; the element is the encoded key alone
\* for a null or undefined value and encodedKey=encodedValue otherwise; the same
\* entries inserted in another order give the same string.
C13_CanonicalQueryString ==
  /\ fx.pc \in {"qs.built", "qs.reordered"} =>
       IF Len(fx.input) = 0 THEN fx.out = <<>>
       ELSE LET parts == Split(fx.out, "&")
            IN /\ Len(parts) = Len(fx.input)
               /\ \A j \in 1..Len(fx.input) :
                    parts[RawRank(fx.input, fx.input[j].k)] = QueryElement(fx.input[j])
  /\ fx.pc = "qs.reordered" => fx.out2 = fx.out

C13_Witness ==
  /\ fx.pc = "qs.reordered"
  /\ fx.input = <<[k |-> S(<<"b">>), v |-> Null],
                  [k |-> S(<<"a", "/">>), v |-> Str(S(<<"x", " ", "y">>))],
                  [k |-> S(<<"a", "-">>), v |-> Str(<<>>)]>>
  /\ fx.other # fx.input
  /\ fx.out2 = S(<<"a", "-", "=", "&", "a", "%", "2", "F", "=", "x", "%", "2", "0", "y", "&", "b">>)

\* the lines of the canonical header block of the call in progress
HeaderLines ==
  LET parts == Split(loc.canonicalHeaders, "\n") IN SubSeq(parts, 1, Len(parts) - 1)

LineName(line) == SubSeq(line, 1, IndexOf(line, ":") - 1)

LineValue(line) == SubSeq(line, IndexOf(line, ":") + 1, Len(line))

Spaces(n) == [i \in 1..n |-> [c |-> " "]]

\* inner is outer without its leading and trailing blanks, and nothing else
TrimmedOnlyAtEnds(outer, inner) ==
  /\ Len(inner) > 0 => (inner[1] # [c |-> " "] /\ inner[Len(inner)] # [c |-> " "])
  /\ \E a \in 0..Len(outer) : \E b \in 0..(Len(outer) - a) :
       outer = Spaces(a) \o inner \o Spaces(b)

\* the header map of the call in progress
CallerHeaders == IF opts.headers = Undef THEN <<>> ELSE opts.headers.o

\* C14: the names of the canonical header block are the lowercased header-map
\* keys that are content-type, content-md5 or start with x-oss-, together with
\* the normalized additional-header names; the block has one line per name, in
\* ascending order, each line being name:value and a newline, where the value of
\* a header of the map is its text without leading and trailing whitespace.
C14_CanonicalHeaderNames ==
  (pc # "idle" /\ loc.error # "bucketName required when objectName provided") =>
    LET lines == HeaderLines
        lowered == {toLowerCase(CallerHeaders[i].k) : i \in 1..Len(CallerHeaders)}
        expected == {k \in lowered : k = ContentType \/ k = ContentMd5 \/ StartsWith(k, XOssPrefix)}
                    \cup Range(loc.fixedAdditional)
    IN /\ {LineName(lines[i]) : i \in 1..Len(lines)} = expected
       /\ Len(lines) = Cardinality(expected)
       /\ \A i \in 1..(Len(lines) - 1) : LexLess(LineName(lines[i]), LineName(lines[i + 1]))
       /\ loc.canonicalHeaders = Concat([i \in 1..Len(lines) |-> lines[i] \o NL])
       /\ \A i \in 1..Len(lines) : \A j \in 1..Len(CallerHeaders) :
            (toLowerCase(CallerHeaders[j].k) = LineName(lines[i]) /\ CallerHeaders[j].v.t = "string") =>
              TrimmedOnlyAtEnds(CallerHeaders[j].v.s, LineValue(lines[i]))

C14_Witness ==
  /\ pc = "returned"
  /\ loc.fixedAdditional = <<S(<<"h", "o", "s", "t">>), HXCustom1Lower>>
  /\ Len(HeaderLines) = 3
  /\ LineName(HeaderLines[3]) = HXOssMeta

\* a signed header value with blanks inside and at both ends
C14_WitnessTrim ==
  /\ pc = "returned"
  /\ \E j \in 1..Len(CallerHeaders) : CallerHeaders[j].v = Str(S(<<" ", "m", " ", "d", " ", " ">>))
  /\ \E i \in 1..Len(HeaderLines) : LineValue(HeaderLines[i]) = S(<<"m", " ", "d">>)

CountOf(s, ch) == Len(PositionsOf(s, ch))

\* C15: for every object key, the path of the composed URL, percent-decoded and
\* encoded again by the rule that composed it, is the same path; the path decodes
\* to "/" and the key, and every "/" of the key is a literal "/" of the path.
C15_PathRoundTrip ==
  /\ fx.pc \in {"path.composed", "path.again"} =>
       IF Len(fx.key) = 0 THEN fx.path = <<>>
       ELSE /\ fx.path[1] = [c |-> "/"]
            /\ CountOf(fx.path, "/") = 1 + CountOf(fx.key, "/")
  /\ fx.pc = "path.again" =>
       /\ fx.reencoded = fx.path
       /\ Len(fx.key) > 0 => fx.decoded = S(<<"/">>) \o fx.key

C15_Witness ==
  /\ fx.pc = "path.again"
  /\ fx.key = S(<<"%", "/", " ">>)
  /\ fx.path = S(<<"/", "%", "2", "5", "/", "%", "2", "0">>)
  /\ fx.reencoded = fx.path

\* C20: for every object key the path of the composed URL equals the canonical
\* URI that was signed with its leading "/bucket" removed: both are encoded by
\* the rule that also escapes ! ' ( ) *.
C20_PathMatchesCanonicalURI ==
  (fx.pc \in {"path.composed", "path.again"} /\ Len(fx.key) > 0) =>
    LET prefix == S(<<"/">>) \o JsString(PathBucket)
    IN /\ StartsWith(fx.canonicalURI, prefix)
       /\ fx.path = SubSeq(fx.canonicalURI, Len(prefix) + 1, Len(fx.canonicalURI))

\* the request has been validated and every required field is there
AllRequired(options) ==
  Truthy(Get(options, KAccessKeyId)) /\ Truthy(Get(options, KAccessKeySecret))
  /\ Truthy(Get(options, KBucket))

\* C16: when, after the merge with the environment, accessKeyId, accessKeySecret
\* or bucket is missing or empty, onRequest answers once, with status 400 and a
\* JSON body that has an error field, and signatureUrlV4 is not called: no
\* signing state exists and no primitive has been called.
C16_MissingGives400 ==
  (http.pc \in {"signing", "responded"} /\ ~AllRequired(http.options)) =>
    /\ http.pc = "responded"
    /\ Len(http.responses) = 1
    /\ http.responses[1].status = 400
    /\ JsonParse(http.responses[1].body).ok
    /\ ObjectKeys(JsonParse(http.responses[1].body).value) = <<KError>>
    /\ http.signerCalls = 0
    /\ pc = "idle"
    /\ loc = LocIdle

C16_Witness ==
  /\ http.pc = "responded"
  /\ http.responses[1].status = 400
  /\ Truthy(Get(http.options, KAccessKeyId))
  /\ Truthy(Get(http.options, KAccessKeySecret))
  /\ getParam(http.body, http.query, KBucket) = Str(<<>>)
  /\ ~Truthy(Get(http.options, KBucket))
  /\ loc.subtleCalls = <<>>

\* C17: a request whose merged options hold accessKeyId, accessKeySecret and
\* bucket calls the signer once and gets one response: status 200 with the body
\* {url: the URL the signer returned} when the signer returns, status 500 with
\* the body {error: text of the error} when the signer throws.
C17_OneResponse ==
  (http.pc \in {"signing", "responded"} /\ AllRequired(http.options)) =>
    /\ http.signerCalls = 1
    /\ http.pc = "signing" => http.responses = <<>>
    /\ http.pc = "responded" =>
         /\ Len(http.responses) = 1
         /\ pc \in {"returned", "thrown"}
         /\ LET r == http.responses[1]
                b == JsonParse(r.body)
            IN /\ b.ok
               /\ pc = "returned" => (r.status = 200 /\ b.value = <<[k |-> KUrl, v |-> Str(loc.url)]>>)
               /\ pc = "thrown" =>
                    /\ r.status = 500
                    /\ ObjectKeys(b.value) = <<KError>>
                    /\ \E i \in 1..Len(b.value[1].v.s) :
                         b.value[1].v.s[i] \in {[msg |-> loc.error], [thrown |-> loc.error]}

C17_Witness ==
  /\ http.pc = "responded"
  /\ AllRequired(http.options)
  /\ pc = "thrown"
  /\ loc.error = "bucket and region or endpoint required"
  /\ http.responses[1].status = 500

\* the value a request gives for the field of a merge: the top level before the
\* options, the body before the query string
RequestValue(s) ==
  LET top == IF s.bodyTop # Undef THEN s.bodyTop ELSE s.queryTop
      inOptions == IF s.bodyOptions # "none"
                     THEN (IF s.bodyOptions = "with" THEN FromBodyOptions ELSE Undef)
                   ELSE IF s.queryOptions = "with" THEN FromQueryOptions ELSE Undef
  IN IF top # Undef THEN top ELSE inOptions

\* the first environment name of the field that is defined and not null
FirstEnvValue(s) ==
  IF \E i \in 1..3 : s.env[i] \notin {Undef, Null}
    THEN LET i == CHOOSE i \in 1..3 : s.env[i] \notin {Undef, Null} /\ \A j \in 1..(i - 1) : s.env[j] \in {Undef, Null}
         IN IF s.env[i] = Str(<<>>) THEN s.env[i] ELSE FromEnv(i)
    ELSE Undef

\* C18: for accessKeyId, accessKeySecret, bucket, region and endpoint, the value
\* onRequest passes to the signer is the value of the request when the request
\* gives one (the body before the query string, for the field and for options
\* alike; the top-level field before the field inside options); when the
\* request's value is missing or empty it is the value of the first environment
\* name, in the listed order, that is defined and not null.
C18_MergePrecedence ==
  fx.pc = "merge.passed" =>
    Get(fx.options, fx.field) =
      (IF Truthy(RequestValue(fx.sources)) THEN RequestValue(fx.sources)
       ELSE FirstEnvValue(fx.sources))

C18_Witness ==
  /\ fx.pc = "merge.passed"
  /\ fx.field = KRegion
  /\ fx.sources.bodyTop = Undef
  /\ fx.sources.queryTop = FromQueryTop
  /\ fx.sources.bodyOptions = "with"
  /\ Get(fx.options, KRegion) = FromQueryTop

\* a request without a value, served by the second environment name
C18_WitnessEnv ==
  /\ fx.pc = "merge.passed"
  /\ fx.field = KAccessKeyId
  /\ RequestValue(fx.sources) = Str(<<>>)
  /\ fx.sources.env[1] = Null
  /\ Get(fx.options, KAccessKeyId) = FromEnv(2)

\* the path of an https URL: from the first "/" after the host up to the query
UrlPath(url) ==
  LET rest == SubSeq(url, Len(Https) + 1, Len(url))
      i == IndexOf(rest, "/")
      j == IndexOf(rest, "?")
      end == IF j = 0 THEN Len(rest) ELSE j - 1
  IN IF i = 0 \/ (j # 0 /\ j < i) THEN <<>> ELSE SubSeq(rest, i, end)

\* C19: when the request names an object (objectName, object or key) and the
\* response is 200, the URL of the response is for that object: its path decodes
\* to "/" and the object name, and the canonical URI that was signed decodes to
\* "/", the bucket, "/" and the object name.
C19_UrlForRequestedObject ==
  (http.pc = "responded" /\ http.responses[1].status = 200 /\ Truthy(http.objectName)) =>
    /\ PercentDecode(UrlPath(loc.url)) = S(<<"/">>) \o JsString(http.objectName)
    /\ PercentDecode(Lines(loc.canonicalRequest)[2]) =
         S(<<"/">>) \o JsString(Get(http.options, KBucket)) \o S(<<"/">>) \o JsString(http.objectName)


\* C21: every header name of the canonical header block is a lowercased key of
\* the caller's header map and its line carries that key's trimmed value; a
\* normalized additional-header name contributes a line only with a value
\* taken from the header map.
C21_HeaderLinesFromMap ==
  (pc # "idle" /\ loc.error # "bucketName required when objectName provided") =>
    LET headers == lowercaseKeyHeader(CallerHeaders)
    IN \A i \in 1..Len(HeaderLines) :
         /\ HasKey(headers, LineName(HeaderLines[i]))
         /\ Get(headers, LineName(HeaderLines[i])).t = "string"
         /\ LineValue(HeaderLines[i]) = trim(Get(headers, LineName(HeaderLines[i])).s)

\* the decoded keys of the canonical query string of the call in progress
SignedQueryKeys ==
  LET params == UrlParams(S(<<"?">>) \o Lines(loc.canonicalRequest)[3])
  IN {params[i].k : i \in 1..Len(params)}

\* the decoded query keys of the returned URL
UrlQueryKeys ==
  LET params == UrlParams(loc.url) IN {params[i].k : i \in 1..Len(params)}

\* C22: for every input, caller queries with reserved x-oss-* names included,
\* the keys of the canonical query string that is signed are the query keys of
\* the returned URL without x-oss-signature; x-oss-signature is never a key of
\* the signed canonical query string.
C22_SignedKeysAreUrlKeys ==
  pc = "returned" =>
    /\ SignedQueryKeys = UrlQueryKeys \ {XOssSignature}
    /\ XOssSignature \notin SignedQueryKeys

\* C23: once off(event, cb) has returned, cb is not invoked for that event by
\* any emit until cb is subscribed again with on, an emit(event) that is in
\* progress when another listener of the event calls off(event, cb) included.
C23_OffStopsInvocation ==
  \A n \in 1..Len(bus.stack) : bus.stack[n].running # "none" => ~bus.stack[n].afterOff

\* C24: after any sequence of user:joined, user:quit, user:rename and
\* roster:clear events, the roster has no two entries with the same user name.
C24_RosterNamesUnique ==
  ui.pc = "roster" =>
    \A i, j \in 1..Len(ui.roster) : ui.roster[i].name = ui.roster[j].name => i = j

\* the message list persisted for a room
StoredMessages(localStorage, room) ==
  LET item == Get(localStorage, storageKeyMessages(room))
  IN IF item = Undef THEN <<>> ELSE item.list

\* the last MaxStoredMessages entries of a list
MostRecent(list) ==
  [i \in 1..(IF Len(list) > MaxStoredMessages THEN MaxStoredMessages ELSE Len(list)) |->
     list[Len(list) - (IF Len(list) > MaxStoredMessages THEN MaxStoredMessages ELSE Len(list)) + i]]

ChatRooms == {DefaultRoom, RoomNight.s}

\* every persisted list has at most 2000 entries, each with user, text and
\* timestamp only, none of the system user
C25_Stored ==
  ui.pc = "chat" =>
    \A room \in ChatRooms :
      LET list == StoredMessages(ui.localStorage, room)
      IN /\ Len(list) <= MaxStoredMessages
         /\ \A i \in 1..Len(list) :
              /\ DOMAIN list[i] = {"user", "text", "timestamp"}
              /\ list[i].user # SystemUser

\* a call of addChatMessage for a user other than the system user appends its
\* message to the list of the current room and keeps the most recent 2000, in
\* the order they arrived; the lists of the other rooms stay as they are
C25_Step ==
  (ui.pc = "chat" /\ ui'.event.type = "addChatMessage") =>
    LET room == RoomOf(ui.currentRoom)
        before == StoredMessages(ui.localStorage, room)
        after == StoredMessages(ui'.localStorage, room)
        stamp == IF Truthy(ui'.event.timestamp) THEN ui'.event.timestamp ELSE Num(now)
        msg == [user |-> ui'.event.user, text |-> TextHi, timestamp |-> stamp]
    IN /\ after = (IF ui'.event.user = SystemUser THEN before ELSE MostRecent(Append(before, msg)))
       /\ \A other \in ChatRooms \ {room} :
            StoredMessages(ui'.localStorage, other) = StoredMessages(ui.localStorage, other)

\* C25: after any sequence of addChatMessage calls, the message list persisted
\* for a room holds at most 2000 entries (the most recent ones, in arrival
\* order, each with only user/text/timestamp) and never a message of the
\* system user.
C25_PersistedMessages == [](C25_Stored) /\ [][C25_Step]_vars

\* the 2001st message has been saved and the oldest one dropped
C25_Witness ==
  /\ ui.pc = "chat"
  /\ ui.event.type = "addChatMessage"
  /\ LET list == StoredMessages(ui.localStorage, DefaultRoom)
     IN /\ Len(list) = MaxStoredMessages
        /\ list[1] = [user |-> UserK, text |-> TextOld, timestamp |-> Num(2)]
        /\ list[MaxStoredMessages] = [user |-> UserK, text |-> TextHi, timestamp |-> Num(9)]
        /\ list[MaxStoredMessages - 1] = [user |-> UserK, text |-> TextHi, timestamp |-> Num(1)]

\* an entry of the message list has the user, text and timestamp of the event
SameMessage(m, data) ==
  m.user = data.name /\ m.text = data.message /\ m.timestamp = data.timestamp

CountSame(messages, data) ==
  Cardinality({i \in 1..Len(messages) : SameMessage(messages[i], data)})

\* one message:received event: ignored when its name is the system user or
\* when an entry with its name, message and timestamp is in the list; with a
\* timestamp, it adds at most one entry, and only one the list did not have
C26_Step ==
  (ui.pc = "chat" /\ ui'.event.type = "message:received") =>
    LET data == ui'.event.data
        n == Len(ui.messages)
    IN /\ (data.name = SystemUser \/ CountSame(ui.messages, data) > 0) =>
            /\ ui'.messages = ui.messages
            /\ ui'.localStorage = ui.localStorage
            /\ ui'.writes = ui.writes
       /\ Truthy(data.timestamp) =>
            \/ ui'.messages = ui.messages
            \/ /\ Len(ui'.messages) = n + 1
               /\ SubSeq(ui'.messages, 1, n) = ui.messages
               /\ SameMessage(ui'.messages[n + 1], data)
               /\ CountSame(ui'.messages, data) = 1

\* C26: a message:received event equal in (name, message, timestamp) to the
\* (user, text, timestamp) of an entry of the in-memory message list adds no
\* entry and writes nothing to storage, and one whose name is the system user
\* is always ignored; hence over any sequence of message:received events
\* carrying timestamps the list never gains two entries with the same user,
\* text and timestamp.
C26_ReceivedOnce == [][C26_Step]_vars

\* a message has been received twice and is in the list once
C26_Witness ==
  /\ ui.pc = "chat"
  /\ ui.event.type = "message:received"
  /\ ui.outcome = "exists"
  /\ ui.count = 2
  /\ Len(ui.messages) = 1
  /\ ui.writes = 2
  /\ SameMessage(ui.messages[1], ui.event.data)

\* the hour shown in the parenthetical of a formatted time, -1 without one
ParentheticalHour(text) ==
  LET open == IndexOf(text, "uff08")
      inner == SubSeq(text, open + 1, Len(text))
      m == FirstTimeMatch(inner)
  IN IF open = 0 \/ m.at = 0 THEN 0 - 1
     ELSE NumberOf(SubSeq(inner, m.at, m.at + m.digits - 1))

\* C27: formatDate terminates for every timestamp: the recursive call made for
\* a time before 06:00 is on the instant 12 hours earlier, whose hour of day is
\* never below 6, so the recursion depth is at most one, and the parenthetical
\* shows the hour increased by 24 relative to the original hour.
C27_FormatDateDepth ==
  ui.pc = "date" =>
    /\ Len(ui.calls) <= 2
    /\ Len(ui.calls) = 2 =>
         /\ ui.calls[2].timestamp = ui.calls[1].timestamp - 12
         /\ getHours(ui.zone, ui.calls[2].timestamp) >= 6
    /\ (ui.result.some /\ ui.input # 0 /\ getHours(ui.zone, ui.input) < 6) =>
         ParentheticalHour(ui.result.text) = getHours(ui.zone, ui.input) + 24
====
